---------------------------- MODULE Spec2Model ----------------------------
(***************************************************************************)
(* A model of the AST-to-RAM middle end of Souffle:                        *)
(*   - AstToRamTranslator (program assembly, SCC driver, fixpoint          *)
(*     skeleton, ADT erasure),                                             *)
(*   - seminaive::ClauseTranslator (clause lowering),                      *)
(*   - the execution of the emitted RAM statements over small databases.   *)
(*                                                                         *)
(* AST and RAM nodes are records tagged by the field "kind".  An atom of a *)
(* clause is referred to by its position (0 = the head, p >= 1 = the p-th  *)
(* body literal), which stands for the pointer identity the C++ code uses. *)
(***************************************************************************)
EXTENDS Integers, Sequences, FiniteSets, TLC

(***************************************************************************)
(* Bounds of the model.                                                    *)
(***************************************************************************)
\* values of the data domain are 1..MaxVal
MaxVal == 2
\* number of tuples in a loaded input relation
MaxFacts == 2

Vals == 1..MaxVal

(***************************************************************************)
(* Generic helpers.                                                        *)
(***************************************************************************)
Range(s) == {s[i] : i \in DOMAIN s}

RECURSIVE SeqOfSet(_)
SeqOfSet(S) ==
    IF S = {} THEN <<>>
    ELSE LET m == CHOOSE x \in S : \A y \in S : x <= y
         IN <<m>> \o SeqOfSet(S \ {m})

RECURSIVE FlattenSeqs(_)
FlattenSeqs(ss) ==
    IF ss = <<>> THEN <<>> ELSE Head(ss) \o FlattenSeqs(Tail(ss))

\* the positions of s whose element satisfies Test, in increasing order
PositionsWhere(s, Test(_)) == SeqOfSet({i \in DOMAIN s : Test(s[i])})

(***************************************************************************)
(* Name mangler (ast2ram/utility/Utils): concrete, delta, new, reject and  *)
(* delete variants of a qualified relation name.                           *)
(***************************************************************************)
getConcreteRelationName(name) == name
getDeltaRelationName(name) == "@delta_" \o name
getNewRelationName(name) == "@new_" \o name
getRejectRelationName(name) == "@reject_" \o name
getDeleteRelationName(name) == "@delete_" \o name

(***************************************************************************)
(* AST nodes.                                                              *)
(***************************************************************************)
Variable(n) == [kind |-> "Variable", name |-> n]
UnnamedVariable == [kind |-> "UnnamedVariable"]
NumericConstant(v) == [kind |-> "NumericConstant", val |-> v]
RecordInit(as) == [kind |-> "RecordInit", args |-> as]
BranchInit(c, as) == [kind |-> "BranchInit", ctor |-> c, args |-> as]
IntrinsicFunctor(f, as) == [kind |-> "IntrinsicFunctor", fn |-> f, args |-> as]

Atom(n, as) == [kind |-> "Atom", name |-> n, args |-> as]
Negation(a) == [kind |-> "Negation", atom |-> a]
BinaryConstraint(o, l, r) == [kind |-> "BinaryConstraint", bop |-> o, lhs |-> l, rhs |-> r]

\* plan: a function from version numbers to 1-based atom orders
Clause(h, b, p, sub) == [head |-> h, body |-> b, plan |-> p, subsumptive |-> sub]
NoPlan == <<>>
Rule(h, b) == Clause(h, b, NoPlan, FALSE)

IsAtom(lit) == lit.kind = "Atom"
\* ast::getBodyLiterals<ast::Atom>: the positions of the body atoms, in body order
BodyAtoms(clause) == PositionsWhere(clause.body, IsAtom)
\* the atom at a position of the clause (0 is the head)
AtomAt(clause, p) == IF p = 0 THEN clause.head ELSE clause.body[p]
Arity(atom) == Len(atom.args)
isFact(clause) == BodyAtoms(clause) = <<>>
isRule(clause) == ~isFact(clause)

(***************************************************************************)
(* RAM nodes.                                                              *)
(***************************************************************************)
TupleElement(l, c) == [kind |-> "TupleElement", level |-> l, col |-> c]
SignedConstant(v) == [kind |-> "SignedConstant", val |-> v]
UndefValue == [kind |-> "UndefValue"]

EmptinessCheck(r) == [kind |-> "EmptinessCheck", rel |-> r]
ExistenceCheck(r, vs) == [kind |-> "ExistenceCheck", rel |-> r, values |-> vs]
RamNegation(c) == [kind |-> "Negation", arg |-> c]
Conjunction(l, r) == [kind |-> "Conjunction", lhs |-> l, rhs |-> r]
Constraint(o, l, r) == [kind |-> "Constraint", cop |-> o, lhs |-> l, rhs |-> r]
RelationSize(r) == [kind |-> "RelationSize", rel |-> r]
True == [kind |-> "True"]

Insert(r, vs) == [kind |-> "Insert", rel |-> r, values |-> vs]
GuardedInsert(r, vs, c) == [kind |-> "GuardedInsert", rel |-> r, values |-> vs, cond |-> c]
Project(r, vs) == [kind |-> "Project", rel |-> r, values |-> vs]
Filter(c, o) == [kind |-> "Filter", cond |-> c, inner |-> o]
Break(c, o) == [kind |-> "Break", cond |-> c, inner |-> o]
Scan(r, l, o) == [kind |-> "Scan", rel |-> r, level |-> l, inner |-> o]

Query(o) == [kind |-> "Query", operation |-> o]
Sequence(ss) == [kind |-> "Sequence", stmts |-> ss]
Parallel(ss) == [kind |-> "Parallel", stmts |-> ss]
Loop(b) == [kind |-> "Loop", body |-> b]
Exit(c) == [kind |-> "Exit", cond |-> c]
Clear(r) == [kind |-> "Clear", rel |-> r]
Swap(a, b) == [kind |-> "Swap", first |-> a, second |-> b]
Extend(d, s) == [kind |-> "Extend", target |-> d, source |-> s]
IO(r, d) == [kind |-> "IO", rel |-> r, directive |-> d]
Call(n) == [kind |-> "Call", name |-> n]
DebugInfo(s) == [kind |-> "DebugInfo", stmt |-> s]
LogRelationTimer(s, m, r) ==
    [kind |-> "LogRelationTimer", stmt |-> s, message |-> m, rel |-> r]
LogSize(r) == [kind |-> "LogSize", rel |-> r]
LogTimer(s) == [kind |-> "LogTimer", stmt |-> s]

\* ram::Relation
RamRelation(n, a, aux, names, quals, rep) ==
    [name |-> n, arity |-> a, auxiliaryArity |-> aux, attributeNames |-> names,
     attributeTypeQualifiers |-> quals, representation |-> rep]

\* LogStatement: the messages of the profile log
LogStatement(tag, relationName) == [tag |-> tag, relation |-> relationName]
tRecursiveRule(relationName, version) ==
    [tag |-> "@t-recursive-rule", relation |-> relationName, version |-> version]

\* appendStmt (ram/utility/Utils): a null statement is not appended
appendStmt(stmts, s) == Append(stmts, s)


(***************************************************************************)
(* ValueIndex, ValueTranslator and ConstraintTranslator.                   *)
(***************************************************************************)
Location(id, el) == [identifier |-> id, element |-> el]
LocLess(a, b) ==
    \/ a.identifier < b.identifier
    \/ a.identifier = b.identifier /\ a.element < b.element

\* the variables occurring as direct arguments of an atom
AtomVars(atom) == {atom.args[i].name : i \in {j \in DOMAIN atom.args : atom.args[j].kind = "Variable"}}

\* ValueIndex::getVariableReferences(name) for a list of operators (the
\* atoms in scan order, the level of an operator is its index minus one):
\* indexNodeArguments records one reference per variable argument
getVariableReferences(clause, operators, name) ==
    UNION {{Location(l - 1, c - 1) :
                c \in {d \in DOMAIN AtomAt(clause, operators[l]).args :
                          AtomAt(clause, operators[l]).args[d] = Variable(name)}} :
           l \in DOMAIN operators}

IndexedVars(clause, operators) ==
    UNION {AtomVars(AtomAt(clause, operators[l])) : l \in DOMAIN operators}

\* the canonical (earliest) reference of a variable
FirstReference(refs) == CHOOSE a \in refs : \A b \in refs : a = b \/ LocLess(a, b)

makeRamTupleElement(loc) == TupleElement(loc.identifier, loc.element)

\* ValueTranslator::translate
translateValue(clause, operators, arg) ==
    CASE arg.kind = "Variable" ->
            LET refs == getVariableReferences(clause, operators, arg.name)
            IN IF refs = {} THEN UndefValue ELSE makeRamTupleElement(FirstReference(refs))
      [] arg.kind = "UnnamedVariable" -> UndefValue
      [] arg.kind = "NumericConstant" -> SignedConstant(arg.val)

translateValues(clause, operators, args) ==
    [i \in DOMAIN args |-> translateValue(clause, operators, args[i])]

BinaryConstraintOp(bop) ==
    CASE bop = "=" -> "EQ" [] bop = "!=" -> "NE" [] bop = "<" -> "LT"
      [] bop = "<=" -> "LE" [] bop = ">" -> "GT" [] bop = ">=" -> "GE"

\* ConstraintTranslator::translate: absent (NoCondition) for an atom
NoCondition == [kind |-> "null"]
translateConstraint(clause, operators, lit) ==
    CASE lit.kind = "Atom" -> NoCondition
      [] lit.kind = "BinaryConstraint" ->
            Constraint(BinaryConstraintOp(lit.bop),
                translateValue(clause, operators, lit.lhs),
                translateValue(clause, operators, lit.rhs))
      [] lit.kind = "Negation" ->
            IF Arity(lit.atom) = 0
            THEN EmptinessCheck(getConcreteRelationName(lit.atom.name))
            ELSE RamNegation(ExistenceCheck(getConcreteRelationName(lit.atom.name),
                    translateValues(clause, operators, lit.atom.args)))

\* ram::toCondition: the left-nested conjunction of a list, null when empty
RECURSIVE toCondition(_)
toCondition(conds) ==
    IF conds = <<>> THEN NoCondition
    ELSE IF Len(conds) = 1 THEN conds[1]
    ELSE Conjunction(toCondition(SubSeq(conds, 1, Len(conds) - 1)), conds[Len(conds)])

(***************************************************************************)
(* seminaive::ClauseTranslator.                                            *)
(*                                                                         *)
(* The members of the translator object are passed as the record ctx:      *)
(*   sccAtoms     the body positions of the atoms of the SCC (empty when   *)
(*                the clause is translated in non-recursive mode),         *)
(*   version      the version being translated,                            *)
(*   mode         the TranslationMode,                                     *)
(*   autoSchedule, profile   the configuration flags,                      *)
(*   stats        the statistics of the auto-scheduler,                    *)
(*   relations    the relations of the program (attributes and functional  *)
(*                dependencies).                                           *)
(***************************************************************************)
TranslationModes ==
    {"DEFAULT", "SubsumeRejectNewNew", "SubsumeRejectNewCurrent",
     "SubsumeDeleteCurrentDelta", "SubsumeDeleteCurrentCurrent"}

isRecursive(ctx) == ctx.sccAtoms # <<>>

\* std::vector::at throws for an index out of range
OutOfRange == "!out_of_range"

\* the dominating atom read from the relation itself in every deleting mode
getClauseAtomName_NoDeltaMode(clause, p, ctx) ==
    LET name == AtomAt(clause, p).name
        body == clause.body
        \* dynamic_cast<const ast::Atom*>(body[0]) and (body[1])
        dominatedHeadAtom == IF Len(body) >= 1 /\ IsAtom(body[1]) THEN 1 ELSE -1
        dominatingHeadAtom == IF Len(body) >= 2 /\ IsAtom(body[2]) THEN 2 ELSE -1
        deleting == ctx.mode \in {"SubsumeDeleteCurrentDelta", "SubsumeDeleteCurrentCurrent"}
    IN  IF clause.subsumptive /\ p = 0
        THEN IF deleting THEN getDeleteRelationName(name) ELSE getRejectRelationName(name)
        ELSE IF clause.subsumptive /\ p = dominatedHeadAtom
        THEN IF deleting THEN getConcreteRelationName(name) ELSE getNewRelationName(name)
        ELSE IF clause.subsumptive /\ p = dominatingHeadAtom
        THEN CASE ctx.mode \in {"SubsumeRejectNewCurrent", "SubsumeDeleteCurrentCurrent",
                                "SubsumeDeleteCurrentDelta"} ->
                    getConcreteRelationName(name)
               [] OTHER -> getNewRelationName(name)
        ELSE IF clause.subsumptive /\ isRecursive(ctx) /\ ctx.version + 2 > Len(ctx.sccAtoms)
        THEN OutOfRange
        ELSE IF clause.subsumptive /\ isRecursive(ctx) /\ ctx.sccAtoms[ctx.version + 2] = p
        THEN getDeltaRelationName(name)
        ELSE IF ~isRecursive(ctx) THEN getConcreteRelationName(name)
        ELSE IF p = 0 THEN getNewRelationName(name)
        ELSE IF ctx.version + 1 > Len(ctx.sccAtoms) THEN OutOfRange
        ELSE IF ctx.sccAtoms[ctx.version + 1] = p THEN getDeltaRelationName(name)
        ELSE getConcreteRelationName(name)

\* ClauseTranslator::getClauseAtomName
getClauseAtomName(clause, p, ctx) ==
    LET name == AtomAt(clause, p).name
        body == clause.body
        \* dynamic_cast<const ast::Atom*>(body[0]) and (body[1])
        dominatedHeadAtom == IF Len(body) >= 1 /\ IsAtom(body[1]) THEN 1 ELSE -1
        dominatingHeadAtom == IF Len(body) >= 2 /\ IsAtom(body[2]) THEN 2 ELSE -1
        deleting == ctx.mode \in {"SubsumeDeleteCurrentDelta", "SubsumeDeleteCurrentCurrent"}
    IN  IF clause.subsumptive /\ p = 0
        THEN IF deleting THEN getDeleteRelationName(name) ELSE getRejectRelationName(name)
        ELSE IF clause.subsumptive /\ p = dominatedHeadAtom
        THEN IF deleting THEN getConcreteRelationName(name) ELSE getNewRelationName(name)
        ELSE IF clause.subsumptive /\ p = dominatingHeadAtom
        THEN CASE ctx.mode \in {"SubsumeRejectNewCurrent", "SubsumeDeleteCurrentCurrent"} ->
                    getConcreteRelationName(name)
               [] ctx.mode = "SubsumeDeleteCurrentDelta" -> getDeltaRelationName(name)
               [] OTHER -> getNewRelationName(name)
        ELSE IF clause.subsumptive /\ isRecursive(ctx) /\ ctx.version + 2 > Len(ctx.sccAtoms)
        THEN OutOfRange
        ELSE IF clause.subsumptive /\ isRecursive(ctx) /\ ctx.sccAtoms[ctx.version + 2] = p
        THEN getDeltaRelationName(name)
        ELSE IF ~isRecursive(ctx) THEN getConcreteRelationName(name)
        ELSE IF p = 0 THEN getNewRelationName(name)
        ELSE IF ctx.version + 1 > Len(ctx.sccAtoms) THEN OutOfRange
        ELSE IF ctx.sccAtoms[ctx.version + 1] = p THEN getDeltaRelationName(name)
        ELSE getConcreteRelationName(name)

\* the distinct functional dependencies of a relation, in declaration order
\* (equivalentConstraint: the same set of keys)
DistinctFDs(fds) ==
    LET keep == {i \in DOMAIN fds : \A j \in 1..(i - 1) : fds[j] # fds[i]}
        order == SeqOfSet(keep)
    IN [k \in DOMAIN order |-> fds[order[k]]]

\* getFunctionalDependencies with the check against the target relation of
\* the head only, in recursive mode too
getFunctionalDependencies_TargetOnly(clause, ctx, operators) ==
    LET relation == ctx.relations[clause.head.name]
        headRelationName == getClauseAtomName(clause, 0, ctx)
        attributes == relation.attributes
        fds == DistinctFDs(relation.functionalDependencies)
        vals(fd) == [i \in DOMAIN attributes |->
                        IF attributes[i] \in fd
                        THEN translateValue(clause, operators, clause.head.args[i])
                        ELSE UndefValue]
    IN  IF relation.functionalDependencies = <<>> THEN NoCondition
        ELSE toCondition([k \in DOMAIN fds |->
                RamNegation(ExistenceCheck(headRelationName, vals(fds[k])))])

\* ClauseTranslator::getFunctionalDependencies
getFunctionalDependencies(clause, ctx, operators) ==
    LET relation == ctx.relations[clause.head.name]
        headRelationName == getClauseAtomName(clause, 0, ctx)
        attributes == relation.attributes
        headArgs == clause.head.args
        fds == DistinctFDs(relation.functionalDependencies)
        vals(fd) == [i \in DOMAIN attributes |->
                        IF attributes[i] \in fd
                        THEN translateValue(clause, operators, headArgs[i])
                        ELSE UndefValue]
        deps(fd) ==
            IF isRecursive(ctx)
            THEN << RamNegation(ExistenceCheck(headRelationName, vals(fd))),
                    RamNegation(ExistenceCheck(getConcreteRelationName(clause.head.name), vals(fd))) >>
            ELSE << RamNegation(ExistenceCheck(headRelationName, vals(fd))) >>
    IN  IF relation.functionalDependencies = <<>> THEN NoCondition
        ELSE toCondition(FlattenSeqs([k \in DOMAIN fds |-> deps(fds[k])]))

\* the insertion without the guard of the functional dependencies
createInsertion_Unguarded(clause, ctx, operators) ==
    LET headRelationName == getClauseAtomName(clause, 0, ctx)
        values == translateValues(clause, operators, clause.head.args)
        guardedConditions == getFunctionalDependencies(clause, ctx, operators)
    IN  IF Arity(clause.head) = 0
        THEN Filter(EmptinessCheck(headRelationName), Insert(headRelationName, values))
        ELSE IF guardedConditions # NoCondition
        THEN Insert(headRelationName, values)
        ELSE Insert(headRelationName, values)

\* ClauseTranslator::createInsertion
createInsertion(clause, ctx, operators) ==
    LET headRelationName == getClauseAtomName(clause, 0, ctx)
        values == translateValues(clause, operators, clause.head.args)
        guardedConditions == getFunctionalDependencies(clause, ctx, operators)
    IN  IF Arity(clause.head) = 0
        THEN Filter(EmptinessCheck(headRelationName), Insert(headRelationName, values))
        ELSE IF guardedConditions # NoCondition
        THEN GuardedInsert(headRelationName, values, guardedConditions)
        ELSE Insert(headRelationName, values)

\* ClauseTranslator::createRamFactQuery (the value index is empty)
createRamFactQuery(clause, ctx) == Query(createInsertion(clause, ctx, <<>>))

\* ClauseTranslator::addEqualityCheck
addEqualityCheck(op, lhs, rhs, isFloat) ==
    Filter(Constraint(IF isFloat THEN "FEQ" ELSE "EQ", lhs, rhs), op)

\* ClauseTranslator::translateConstant
translateConstant(constant) == SignedConstant(constant.val)

\* ClauseTranslator::addConstantConstraints
RECURSIVE addConstantConstraintsFrom(_, _, _, _)
addConstantConstraintsFrom(i, curLevel, arguments, op) ==
    IF i > Len(arguments) THEN op
    ELSE addConstantConstraintsFrom(i + 1, curLevel, arguments,
            IF arguments[i].kind = "NumericConstant"
            THEN addEqualityCheck(op, TupleElement(curLevel, i - 1),
                    translateConstant(arguments[i]), FALSE)
            ELSE op)

addConstantConstraints(curLevel, arguments, op) ==
    addConstantConstraintsFrom(1, curLevel, arguments, op)

\* addAtomScan with the Break around the Scan
addAtomScan_BreakOutside(op, p, clause, curLevel, ctx) ==
    LET atom == AtomAt(clause, p)
        op1 == addConstantConstraints(curLevel, atom.args, op)
        op2 == Filter(RamNegation(EmptinessCheck(getClauseAtomName(clause, p, ctx))), op1)
        isAllArgsUnnamed == \A i \in DOMAIN atom.args : atom.args[i].kind = "UnnamedVariable"
        op3 == Scan(getClauseAtomName(clause, p, ctx), curLevel, op2)
    IN  IF Arity(atom) # 0 /\ ~isAllArgsUnnamed
        THEN IF Arity(clause.head) = 0
             THEN Break(RamNegation(EmptinessCheck(getClauseAtomName(clause, 0, ctx))), op3)
             ELSE op3
        ELSE op2

\* ClauseTranslator::addAtomScan
addAtomScan(op, p, clause, curLevel, ctx) ==
    LET atom == AtomAt(clause, p)
        head == clause.head
        op1 == addConstantConstraints(curLevel, atom.args, op)
        op2 == Filter(RamNegation(EmptinessCheck(getClauseAtomName(clause, p, ctx))), op1)
        isAllArgsUnnamed == \A i \in DOMAIN atom.args : atom.args[i].kind = "UnnamedVariable"
        op3 == IF Arity(head) = 0
               THEN Break(RamNegation(EmptinessCheck(getClauseAtomName(clause, 0, ctx))), op2)
               ELSE op2
    IN  IF Arity(atom) # 0 /\ ~isAllArgsUnnamed
        THEN Scan(getClauseAtomName(clause, p, ctx), curLevel, op3)
        ELSE op2

\* ClauseTranslator::addVariableIntroductions: the operators from the last
\* level down to level 0
RECURSIVE addVariableIntroductionsFrom(_, _, _, _, _)
addVariableIntroductionsFrom(p, clause, operators, op, ctx) ==
    IF p = 0 THEN op
    ELSE addVariableIntroductionsFrom(p - 1, clause, operators,
            addAtomScan(op, operators[p], clause, p - 1, ctx), ctx)

addVariableIntroductions(clause, operators, op, ctx) ==
    addVariableIntroductionsFrom(Len(operators), clause, operators, op, ctx)

\* the references of every indexed variable other than the first one, as
\* pairs <<first, reference>>; the variables are taken by their first
\* reference (the order among these equality filters has no effect)
RECURSIVE SeqOfLocs(_)
SeqOfLocs(S) ==
    IF S = {} THEN <<>>
    ELSE LET m == FirstReference(S) IN <<m>> \o SeqOfLocs(S \ {m})

BindingPairs(clause, operators) ==
    LET vs == IndexedVars(clause, operators)
        firsts == SeqOfLocs({FirstReference(getVariableReferences(clause, operators, v)) : v \in vs})
        varAt(loc) == CHOOSE v \in vs :
                        FirstReference(getVariableReferences(clause, operators, v)) = loc
        others(loc) == SeqOfLocs(getVariableReferences(clause, operators, varAt(loc)) \ {loc})
    IN FlattenSeqs([k \in DOMAIN firsts |->
            [j \in DOMAIN others(firsts[k]) |-> <<firsts[k], others(firsts[k])[j]>>]])

RECURSIVE addEqualityChecks(_, _, _)
addEqualityChecks(i, pairs, op) ==
    IF i > Len(pairs) THEN op
    ELSE addEqualityChecks(i + 1, pairs,
            addEqualityCheck(op, makeRamTupleElement(pairs[i][1]),
                makeRamTupleElement(pairs[i][2]), FALSE))

\* ClauseTranslator::addVariableBindingConstraints
addVariableBindingConstraints(clause, operators, op) ==
    addEqualityChecks(1, BindingPairs(clause, operators), op)

\* the filter of the equalities without its negation
addDistinct_NotNegated(op, clause, operators, p1, p2) ==
    LET a1 == translateValues(clause, operators, AtomAt(clause, p1).args)
        a2 == translateValues(clause, operators, AtomAt(clause, p2).args)
        differing == SeqOfSet({i \in 1..Arity(AtomAt(clause, p1)) : a1[i] # a2[i]})
        conditions == [k \in DOMAIN differing |->
                            Constraint("EQ", a1[differing[k]], a2[differing[k]])]
    IN Filter(toCondition(conditions), op)

\* ClauseTranslator::addDistinct
addDistinct(op, clause, operators, p1, p2) ==
    LET a1 == translateValues(clause, operators, AtomAt(clause, p1).args)
        a2 == translateValues(clause, operators, AtomAt(clause, p2).args)
        differing == SeqOfSet({i \in 1..Arity(AtomAt(clause, p1)) : a1[i] # a2[i]})
        conditions == [k \in DOMAIN differing |->
                            Constraint("EQ", a1[differing[k]], a2[differing[k]])]
    IN Filter(RamNegation(toCondition(conditions)), op)

\* the later atoms checked against the relation itself instead of its delta
addNegatedDeltaAtom_Concrete(op, clause, operators, p) ==
    LET atom == AtomAt(clause, p)
        name == getConcreteRelationName(atom.name)
    IN  IF Arity(atom) = 0
        THEN Filter(EmptinessCheck(name), op)
        ELSE Filter(RamNegation(ExistenceCheck(name,
                        translateValues(clause, operators, atom.args))), op)

\* ClauseTranslator::addNegatedDeltaAtom
addNegatedDeltaAtom(op, clause, operators, p) ==
    LET atom == AtomAt(clause, p)
        name == getDeltaRelationName(atom.name)
    IN  IF Arity(atom) = 0
        THEN Filter(EmptinessCheck(name), op)
        ELSE Filter(RamNegation(ExistenceCheck(name,
                        translateValues(clause, operators, atom.args))), op)

\* addNegatedAtom with the check against the @new_ relation of the atom
addNegatedAtom_New(op, clause, operators, p) ==
    LET atom == AtomAt(clause, p)
        name == getNewRelationName(atom.name)
    IN  IF Arity(atom) = 0
        THEN Filter(EmptinessCheck(name), op)
        ELSE Filter(RamNegation(ExistenceCheck(name,
                        translateValues(clause, operators, atom.args))), op)

\* ClauseTranslator::addNegatedAtom
addNegatedAtom(op, clause, operators, p) ==
    LET atom == AtomAt(clause, p)
        name == getConcreteRelationName(atom.name)
    IN  IF Arity(atom) = 0
        THEN Filter(EmptinessCheck(name), op)
        ELSE Filter(RamNegation(ExistenceCheck(name,
                        translateValues(clause, operators, atom.args))), op)

RECURSIVE addLiteralFilters(_, _, _, _)
addLiteralFilters(i, clause, operators, op) ==
    IF i > Len(clause.body) THEN op
    ELSE LET condition == translateConstraint(clause, operators, clause.body[i])
         IN addLiteralFilters(i + 1, clause, operators,
                IF condition # NoCondition THEN Filter(condition, op) ELSE op)

RECURSIVE addNegatedDeltaAtoms(_, _, _, _, _)
addNegatedDeltaAtoms(i, clause, operators, op, ctx) ==
    IF i > Len(ctx.sccAtoms) THEN op
    ELSE addNegatedDeltaAtoms(i + 1, clause, operators,
            addNegatedDeltaAtom(op, clause, operators, ctx.sccAtoms[i]), ctx)

\* ClauseTranslator::addBodyLiteralConstraints
addBodyLiteralConstraints(clause, operators, op, ctx) ==
    LET op1 == addLiteralFilters(1, clause, operators, op)
    IN  IF clause.subsumptive
        THEN IF ctx.mode \in {"SubsumeRejectNewNew", "SubsumeDeleteCurrentCurrent"}
             THEN addDistinct(op1, clause, operators, 1, 2)
             ELSE op1
        ELSE IF isRecursive(ctx)
        THEN addNegatedDeltaAtoms(ctx.version + 2, clause, operators,
                IF Arity(clause.head) > 0
                THEN addNegatedAtom(op1, clause, operators, 0)
                ELSE op1,
                ctx)
        ELSE op1

\* createCondition without the test of the recursive mode
createCondition_AnyMode(clause, ctx) ==
    IF Arity(clause.head) = 0
    THEN EmptinessCheck(getConcreteRelationName(clause.head.name))
    ELSE NoCondition

\* ClauseTranslator::createCondition
createCondition(clause, ctx) ==
    IF isRecursive(ctx) /\ Arity(clause.head) = 0
    THEN EmptinessCheck(getConcreteRelationName(clause.head.name))
    ELSE NoCondition

\* ClauseTranslator::addEntryPoint
addEntryPoint(clause, op, ctx) ==
    LET cond == createCondition(clause, ctx)
    IN IF cond # NoCondition THEN Filter(cond, op) ELSE op

(***************************************************************************)
(* ClauseTranslator::getAtomOrdering: explicit plans and the Selinger      *)
(* planner.  Atoms are numbered 1..N here (0..N-1 in the C++ code).  The   *)
(* costs are doubles in the code; the unique-key estimates of the model    *)
(* are 0, 1 or 2, so every cost is a multiple of 1/2 and is kept doubled   *)
(* (cost2), which is exact.                                                *)
(***************************************************************************)
RECURSIVE VarsOf(_)
VarsOf(arg) ==
    CASE arg.kind = "Variable" -> {arg.name}
      [] arg.kind \in {"RecordInit", "BranchInit", "IntrinsicFunctor"} ->
            UNION {VarsOf(arg.args[i]) : i \in DOMAIN arg.args}
      [] OTHER -> {}

MapPut(m, k, v) == [x \in (DOMAIN m) \cup {k} |-> IF x = k THEN v ELSE m[x]]
MapGet(m, k, default) == IF k \in DOMAIN m THEN m[k] ELSE default

IsBinaryConstraint(lit) == lit.kind = "BinaryConstraint"
\* ast::getBodyLiterals<ast::BinaryConstraint>
BodyConstraints(clause) ==
    LET ps == PositionsWhere(clause.body, IsBinaryConstraint)
    IN [k \in DOMAIN ps |-> clause.body[ps[k]]]

isEqConstraint(bop) == bop = "="
isIneqConstraint(bop) == bop \in {"<", "<=", ">", ">="}
isLessOp(bop) == bop \in {"<", "<="}
isGreaterOp(bop) == bop \in {">", ">="}

\* varToConstant: x = c or c = x
RECURSIVE VarToConstantFrom(_, _, _)
VarToConstantFrom(i, cs, m) ==
    IF i > Len(cs) THEN m
    ELSE LET c == cs[i]
         IN VarToConstantFrom(i + 1, cs,
            IF ~isEqConstraint(c.bop) THEN m
            ELSE IF c.lhs.kind = "Variable" /\ c.rhs.kind = "NumericConstant"
            THEN MapPut(m, c.lhs.name, c.rhs)
            ELSE IF c.lhs.kind = "NumericConstant" /\ c.rhs.kind = "Variable"
            THEN MapPut(m, c.rhs.name, c.lhs)
            ELSE m)

\* varToOtherVars from the equalities: x = f(y, z) maps x to {y, z}
RECURSIVE VarToOtherVarsFrom(_, _, _)
VarToOtherVarsFrom(i, cs, m) ==
    IF i > Len(cs) THEN m
    ELSE LET c == cs[i]
         IN VarToOtherVarsFrom(i + 1, cs,
            IF ~isEqConstraint(c.bop) THEN m
            ELSE IF c.lhs.kind = "Variable" /\ c.rhs.kind = "NumericConstant" THEN m
            ELSE IF c.lhs.kind = "NumericConstant" /\ c.rhs.kind = "Variable" THEN m
            ELSE IF c.lhs.kind = "Variable" THEN MapPut(m, c.lhs.name, VarsOf(c.rhs))
            ELSE IF c.rhs.kind = "Variable" THEN MapPut(m, c.rhs.name, VarsOf(c.lhs))
            ELSE m)

\* ineqToUpperLower: variable -> <<lower, upper>>
RECURSIVE IneqToUpperLowerFrom(_, _, _)
IneqToUpperLowerFrom(i, cs, m) ==
    IF i > Len(cs) THEN m
    ELSE LET c == cs[i]
             none == << {}, {} >>
             m1 == IF isIneqConstraint(c.bop) /\ c.lhs.kind = "Variable"
                   THEN LET old == MapGet(m, c.lhs.name, none)
                        IN MapPut(m, c.lhs.name,
                             IF isLessOp(c.bop) THEN << old[1], VarsOf(c.rhs) >>
                             ELSE << VarsOf(c.rhs), old[2] >>)
                   ELSE m
             m2 == IF isIneqConstraint(c.bop) /\ c.rhs.kind = "Variable"
                   THEN LET old == MapGet(m1, c.rhs.name, none)
                        IN MapPut(m1, c.rhs.name,
                             IF isLessOp(c.bop) THEN << VarsOf(c.lhs), old[2] >>
                             ELSE << old[1], VarsOf(c.lhs) >>)
                   ELSE m1
         IN IneqToUpperLowerFrom(i + 1, cs, m2)

\* the dependency map after the bounded inequalities are added
VarToOtherVars(clause) ==
    LET cs == BodyConstraints(clause)
        eqs == VarToOtherVarsFrom(1, cs, <<>>)
        ineqs == IneqToUpperLowerFrom(1, cs, <<>>)
        bounded == {v \in DOMAIN ineqs :
                        /\ ineqs[v][1] # {} /\ ineqs[v][2] # {}
                        /\ ineqs[v][1] \subseteq ineqs[v][2]}
    IN [v \in (DOMAIN eqs) \cup bounded |->
            IF v \in bounded THEN ineqs[v][2] ELSE eqs[v]]

VarToConstant(clause) == VarToConstantFrom(1, BodyConstraints(clause), <<>>)

\* the base relation of a (possibly prefixed) relation name
BaseName(ctx, name) ==
    CHOOSE b \in DOMAIN ctx.relations :
        name \in {b, getDeltaRelationName(b), getNewRelationName(b),
                  getRejectRelationName(b), getDeleteRelationName(b)}

\* the size queries of the TranslatorContext (the scheduler's statistics)
contextGetRelationSize(ctx, name) == ctx.stats.relSize[BaseName(ctx, name)]
contextGetRecursiveUniqueKeys(ctx, name, joinKeys) ==
    IF joinKeys = {} THEN ctx.stats.relSize[BaseName(ctx, name)]
    ELSE ctx.stats.uniqueKeys[BaseName(ctx, name)]
contextGetNonRecursiveUniqueKeys(ctx, name, joinKeys) ==
    ctx.stats.uniqueKeys[BaseName(ctx, name)]

\* the lambda getRelationSize of getAtomOrdering
getRelationSize(ctx, atomIsRecursive, name, joinColumns, constantsMap) ==
    LET joinKeys == joinColumns \cup constantsMap
    IN  IF joinKeys = {} /\ ~atomIsRecursive THEN contextGetRelationSize(ctx, name)
        ELSE IF atomIsRecursive THEN contextGetRecursiveUniqueKeys(ctx, name, joinKeys)
        ELSE contextGetNonRecursiveUniqueKeys(ctx, name, joinKeys)

\* atomToIdxConstants: the argument positions holding a constant or a
\* variable equated to a constant
AtomIdxConstants(clause, atom) ==
    {i \in DOMAIN atom.args :
        \/ atom.args[i].kind = "NumericConstant"
        \/ /\ atom.args[i].kind = "Variable"
           /\ atom.args[i].name \in DOMAIN VarToConstant(clause)}

AtomGroundedVars(atom) == UNION {VarsOf(atom.args[i]) : i \in DOMAIN atom.args}

\* recursiveInCurrentStratum: the atoms equal to an atom of sccAtoms
RecursiveInCurrentStratum(clause, ctx) ==
    LET atoms == BodyAtoms(clause)
    IN {i \in DOMAIN atoms :
            \E k \in DOMAIN ctx.sccAtoms :
                AtomAt(clause, atoms[i]) = AtomAt(clause, ctx.sccAtoms[k])}

PlanTuplesCost(plan, tuples, cost2) == [plan |-> plan, tuples |-> tuples, cost2 |-> cost2]

\* the entry of cache[1] for atom i
SingletonPlan(clause, ctx, i) ==
    LET atoms == BodyAtoms(clause)
        atom == AtomAt(clause, atoms[i])
        name == getClauseAtomName(clause, atoms[i], ctx)
        tuples == getRelationSize(ctx, i \in RecursiveInCurrentStratum(clause, ctx),
                        name, {}, AtomIdxConstants(clause, atom))
    IN PlanTuplesCost(<<i>>, tuples, 2 * tuples * Arity(atom))

\* the join columns of an atom: the variable arguments grounded by the atoms
\* of the subset, directly or through varToOtherVars
JoinColumns(atom, constants, varToOtherVars, groundedVariablesFromSubset) ==
    {i \in DOMAIN atom.args :
        /\ i \notin constants
        /\ atom.args[i].kind = "Variable"
        /\ \/ /\ atom.args[i].name \in DOMAIN varToOtherVars
              /\ varToOtherVars[atom.args[i].name] \subseteq groundedVariablesFromSubset
           \/ atom.args[i].name \in groundedVariablesFromSubset}

\* numBound: the constants, the unnamed variables and the join columns
NumBound(atom, constants, joinColumns) ==
    Cardinality({i \in DOMAIN atom.args :
        \/ i \in constants
        \/ atom.args[i].kind = "UnnamedVariable"
        \/ i \in joinColumns})

\* twice the expected number of tuples of an atom joined to a plan
ExpectedTuples2(ctx, atom, name, atomIsRecursive, constants, joinColumns) ==
    IF NumBound(atom, constants, joinColumns) = Arity(atom) THEN 2
    ELSE IF joinColumns = {}
    THEN 2 * getRelationSize(ctx, atomIsRecursive, name, {}, constants)
    ELSE (2 * getRelationSize(ctx, atomIsRecursive, name, {}, constants))
            \div (LET uniqueKeys == getRelationSize(ctx, atomIsRecursive, name,
                                        joinColumns, constants)
                  IN IF uniqueKeys > 0 THEN uniqueKeys ELSE 1)

\* the plan old extended by atomIdx; tuples are truncated, costs are doubled
ExtendedPlan(old, atomIdx, arity, expectedTuples2) ==
    PlanTuplesCost(Append(old.plan, atomIdx),
                   (old.tuples * expectedTuples2) \div 2,
                   old.cost2 + (old.tuples * expectedTuples2) * arity)

\* the candidate for a subset: the best plan of the subset without atom
\* atomIdx, extended by atomIdx
ExtendPlan(clause, ctx, old, smallerSubset, atomIdx) ==
    ExtendedPlan(old, atomIdx, Arity(AtomAt(clause, BodyAtoms(clause)[atomIdx])),
        ExpectedTuples2(ctx, AtomAt(clause, BodyAtoms(clause)[atomIdx]),
            getClauseAtomName(clause, BodyAtoms(clause)[atomIdx], ctx),
            atomIdx \in RecursiveInCurrentStratum(clause, ctx),
            AtomIdxConstants(clause, AtomAt(clause, BodyAtoms(clause)[atomIdx])),
            JoinColumns(AtomAt(clause, BodyAtoms(clause)[atomIdx]),
                AtomIdxConstants(clause, AtomAt(clause, BodyAtoms(clause)[atomIdx])),
                VarToOtherVars(clause),
                UNION {AtomGroundedVars(AtomAt(clause, BodyAtoms(clause)[idx])) :
                            idx \in smallerSubset})))

\* whether a candidate replaces the memoised plan of the same subset
replacesMemo(memo, candidate) == memo.cost2 >= candidate.cost2

\* the plan kept for a subset after a candidate is tried
memoised(memo, candidate) == IF replacesMemo(memo, candidate) THEN candidate ELSE memo

\* cache[K] for a subset of K atoms: the candidates are tried for the atoms
\* of the subset in increasing order
RECURSIVE BestPlan(_, _, _)
RECURSIVE BestPlanUpTo(_, _, _, _)
BestPlanUpTo(clause, ctx, subset, k) ==
    IF k = 1
    THEN ExtendPlan(clause, ctx, BestPlan(clause, ctx, subset \ {SeqOfSet(subset)[k]}),
                    subset \ {SeqOfSet(subset)[k]}, SeqOfSet(subset)[k])
    ELSE memoised(BestPlanUpTo(clause, ctx, subset, k - 1),
            ExtendPlan(clause, ctx, BestPlan(clause, ctx, subset \ {SeqOfSet(subset)[k]}),
                       subset \ {SeqOfSet(subset)[k]}, SeqOfSet(subset)[k]))

BestPlan(clause, ctx, subset) ==
    IF Cardinality(subset) = 1
    THEN SingletonPlan(clause, ctx, CHOOSE i \in subset : TRUE)
    ELSE BestPlanUpTo(clause, ctx, subset, Cardinality(subset))

\* reorderAtoms (ast/utility/Utils): newOrder holds 0-based indices
reorderAtoms(atoms, newOrder) == [i \in DOMAIN newOrder |-> atoms[newOrder[i] + 1]]

\* an order of 1-based atom numbers as 0-based indices
zeroBased(order) == [i \in DOMAIN order |-> order[i] - 1]

\* ClauseTranslator::getAtomOrdering
getAtomOrdering(clause, ctx) ==
    IF Len(BodyAtoms(clause)) <= 1 \/ ~ctx.autoSchedule
    THEN IF clause.plan = NoPlan THEN BodyAtoms(clause)
         ELSE IF ctx.version \notin DOMAIN clause.plan THEN BodyAtoms(clause)
         ELSE reorderAtoms(BodyAtoms(clause), zeroBased(clause.plan[ctx.version]))
    ELSE reorderAtoms(BodyAtoms(clause),
            zeroBased(BestPlan(clause, ctx, DOMAIN BodyAtoms(clause)).plan))

\* ClauseTranslator::getAtomOrdering, its effect on the clause: the planner
\* clears the execution plan (unsafeClause->clearExecutionPlan())
afterAtomOrdering(clause, ctx) ==
    IF Len(BodyAtoms(clause)) <= 1 \/ ~ctx.autoSchedule THEN clause
    ELSE [clause EXCEPT !.plan = NoPlan]

\* ClauseTranslator::indexAtoms: the operators, in scan order
indexClause(clause, ctx) == getAtomOrdering(clause, ctx)

\* the operation of a rule, set up bottom-up on the indexed clause
ruleOperation(clause, ctx, operators) ==
    addEntryPoint(clause,
        addVariableIntroductions(clause, operators,
            addVariableBindingConstraints(clause, operators,
                addBodyLiteralConstraints(clause, operators,
                    createInsertion(clause, ctx, operators), ctx)), ctx), ctx)

\* ClauseTranslator::createRamRuleQuery
createRamRuleQuery(clause, ctx) ==
    Query(ruleOperation(clause, ctx, indexClause(clause, ctx)))

\* ClauseTranslator::translateNonRecursiveClause
translateNonRecursiveClause(clause, ctx) ==
    IF isFact(clause) THEN createRamFactQuery(clause, ctx)
    ELSE createRamRuleQuery(clause, ctx)

\* the atoms of the body whose relation belongs to the SCC
SccAtomsOf(clause, scc) ==
    LET atoms == BodyAtoms(clause)
        ks == SeqOfSet({k \in DOMAIN atoms : AtomAt(clause, atoms[k]).name \in Range(scc)})
    IN [i \in DOMAIN ks |-> atoms[ks[i]]]

\* ClauseTranslator::translateRecursiveClause: the version configuration
RecursiveCtx(clause, scc, version, ctx) ==
    [ctx EXCEPT !.sccAtoms = SccAtomsOf(clause, scc), !.version = version]

\* the timer of a recursive rule when profiling, then the debug info
timedRule(profile, rule, message, relName) ==
    DebugInfo(IF profile THEN LogRelationTimer(rule, message, relName) ELSE rule)

\* ClauseTranslator::translateRecursiveClause
translateRecursiveClause(clause, scc, version, ctx) ==
    Sequence(<<timedRule(ctx.profile,
                 translateNonRecursiveClause(clause, RecursiveCtx(clause, scc, version, ctx)),
                 tRecursiveRule(getConcreteRelationName(clause.head.name), version),
                 getClauseAtomName(clause, 0, RecursiveCtx(clause, scc, version, ctx)))>>)

(***************************************************************************)
(* AstToRamTranslator: the SCC driver and the fixpoint skeleton.           *)
(*                                                                         *)
(* A program is a record:                                                  *)
(*   relations    name -> [arity, attributes, attributeTypes,              *)
(*                representation, auxArity, functionalDependencies,        *)
(*                limitsize (0: no limitsize directive), directives],      *)
(*   clauses      the clauses, in program order,                           *)
(*   sccGraph     scc id -> [relations (in the iteration order of the      *)
(*                set), recursive, inputs, outputs],                       *)
(*   sccOrdering  the topological order of the scc ids,                    *)
(*   expired      index in sccOrdering -> the relations expired there.     *)
(* The configuration is the record cfg = [profile, autoSchedule, stats].   *)
(***************************************************************************)
\* relDetail->getClauses(name)
getClauses(prog, name) ==
    LET ks == SeqOfSet({k \in DOMAIN prog.clauses : prog.clauses[k].head.name = name})
    IN [i \in DOMAIN ks |-> prog.clauses[ks[i]]]

\* the relations of the SCC of a relation
SccOf(prog, name) ==
    LET id == CHOOSE i \in DOMAIN prog.sccGraph : name \in Range(prog.sccGraph[i].relations)
    IN prog.sccGraph[id]

\* recursiveClauses->recursive(clause): a body atom reaches the head
recursive(prog, clause) ==
    LET scc == SccOf(prog, clause.head.name)
        atoms == BodyAtoms(clause)
    IN /\ scc.recursive
       /\ \E k \in DOMAIN atoms : AtomAt(clause, atoms[k]).name \in Range(scc.relations)

\* the relation of a relation name or of its @delta_ or @new_ variant
\* (AstToRamTranslator::getEvaluationArity strips the prefix)
originalRelations(prog) ==
    LET names == DOMAIN prog.relations
        variants(r) == {getConcreteRelationName(r), getDeltaRelationName(r),
                        getNewRelationName(r)}
    IN [n \in UNION {variants(r) : r \in names} |->
            prog.relations[CHOOSE r \in names : n \in variants(r)]]

\* the members of a ClauseTranslator created by the driver
DriverCtx(prog, cfg, version) ==
    [sccAtoms |-> <<>>, version |-> version, mode |-> "DEFAULT",
     autoSchedule |-> cfg.autoSchedule, profile |-> cfg.profile,
     stats |-> cfg.stats, relations |-> originalRelations(prog)]

\* the entry filter of a recursive clause with a nullary head
withEntryFilter(nullaryRecursive, originalClause, query) ==
    IF nullaryRecursive
    THEN Query(Filter(EmptinessCheck(getConcreteRelationName(originalClause.head.name)),
                      query.operation))
    ELSE query

\* ClauseTranslator(*this).translateClause(clause, originalClause, version):
\* the clause handed over by the driver already carries its @new_ and
\* @delta_ names and its negations, and is lowered as it stands; the entry
\* filter of a nullary head is taken from the original clause
translateClause(prog, cfg, clause, originalClause, version) ==
    withEntryFilter(
        isRule(clause) /\ recursive(prog, originalClause) /\ Arity(originalClause.head) = 0,
        originalClause,
        translateNonRecursiveClause(clause, DriverCtx(prog, cfg, version)))

\* the logging of a rule: a timer when profiling, then the debug info
loggedRule(cfg, rule, message, relName) ==
    DebugInfo(IF cfg.profile THEN LogRelationTimer(rule, message, relName) ELSE rule)

RECURSIVE translateNonRecursiveClauses(_, _, _, _, _)
translateNonRecursiveClauses(prog, cfg, name, clauses, res) ==
    IF clauses = <<>> THEN res
    ELSE translateNonRecursiveClauses(prog, cfg, name, Tail(clauses),
            IF recursive(prog, Head(clauses)) THEN res
            ELSE appendStmt(res,
                    loggedRule(cfg,
                        translateClause(prog, cfg, Head(clauses), Head(clauses), 0),
                        LogStatement("@t-nonrecursive-rule", name),
                        getConcreteRelationName(name))))

\* the logging of the rules of a relation
loggedRelation(cfg, res, relName) ==
    IF cfg.profile
    THEN IF res # <<>>
         THEN Sequence(<<LogRelationTimer(Sequence(res),
                            LogStatement("@t-nonrecursive-relation", relName), relName)>>)
         ELSE Sequence(<<LogSize(relName)>>)
    ELSE Sequence(res)

\* AstToRamTranslator::translateNonRecursiveRelation
translateNonRecursiveRelation(prog, cfg, name) ==
    loggedRelation(cfg,
        translateNonRecursiveClauses(prog, cfg, name, getClauses(prog, name), <<>>),
        getConcreteRelationName(name))

\* addNegation that leaves the clause without the negated head
addNegation_None(clause, atom) == clause

\* AstToRamTranslator::addNegation
addNegation(clause, atom) ==
    IF Arity(clause.head) > 0
    THEN [clause EXCEPT !.body = Append(@, Negation(atom))]
    ELSE clause

\* nameUnnamedVariables (ast2ram/utility/Utils): the wildcards of the body
\* atoms become variables " _unnamed_var<n>", numbered in order
RECURSIVE CountUnnamed(_, _, _)
CountUnnamed(clause, p, i) ==
    \* the number of wildcards of the body atoms before argument i of literal p
    IF p = 0 THEN 0
    ELSE LET lit == clause.body[p]
             here == IF IsAtom(lit)
                     THEN Cardinality({j \in DOMAIN lit.args :
                                j < i /\ lit.args[j].kind = "UnnamedVariable"})
                     ELSE 0
         IN here + (IF p = 1 THEN 0
                    ELSE CountUnnamed(clause, p - 1, Len(clause.body[p - 1].args) + 1))

nameUnnamedVariables(clause) ==
    [clause EXCEPT !.body =
        [p \in DOMAIN clause.body |->
            IF IsAtom(clause.body[p])
            THEN [clause.body[p] EXCEPT !.args =
                    [i \in DOMAIN clause.body[p].args |->
                        IF clause.body[p].args[i].kind = "UnnamedVariable"
                        THEN Variable(" _unnamed_var"
                                \o ToString(CountUnnamed(clause, p, i) + 1))
                        ELSE clause.body[p].args[i]]]
            ELSE clause.body[p]]]

\* AstToRamTranslator::mergeRelations
mergeRelations(prog, name, destRelation, srcRelation) ==
    LET rel == prog.relations[name]
        values == [i \in 1..rel.arity |-> TupleElement(0, i - 1)]
        stmt == Query(Scan(srcRelation, 0, Project(destRelation, values)))
    IN  IF rel.arity = 0
        THEN Query(Filter(RamNegation(EmptinessCheck(srcRelation)),
                    Project(destRelation, <<>>)))
        ELSE IF rel.representation = "EQREL"
        THEN Sequence(<<Extend(destRelation, srcRelation), stmt>>)
        ELSE stmt

\* contains(scc, getAtomRelation(atom, program)); scc is the sequence of the
\* relation names of the component
inScc(scc, atom) == atom.name \in Range(scc)

\* the negations "reduce R to P" of createRecursiveClauseVersions: for every
\* later atom of the component a negated copy on its delta relation
RECURSIVE addDeltaNegations(_, _, _, _)
addDeltaNegations(r1, scc, atoms, k) ==
    IF k > Len(atoms) THEN r1
    ELSE LET cur == AtomAt(r1, atoms[k])
         IN addDeltaNegations(
                IF inScc(scc, cur)
                THEN [r1 EXCEPT !.body =
                        Append(@, Negation([cur EXCEPT !.name = getDeltaRelationName(cur.name)]))]
                ELSE r1,
                scc, atoms, k + 1)

\* the rewritten clause with the delta of every other atom of the component
\* negated, not only of the atoms after the j-th
recursiveClauseVersion_NegatesAll(cl, scc, name, j) ==
    addDeltaNegations(
        nameUnnamedVariables(addNegation(
            [cl EXCEPT !.head.name = getNewRelationName(name),
                       !.body[BodyAtoms(cl)[j]].name = getDeltaRelationName(@)],
            cl.head)),
        scc, BodyAtoms(cl), 1)

\* the rewritten clause with the head left on the concrete relation
recursiveClauseVersion_ConcreteHead(cl, scc, name, j) ==
    LET atoms == BodyAtoms(cl)
        renamed == [cl EXCEPT !.body[atoms[j]].name = getDeltaRelationName(@)]
        named == nameUnnamedVariables(addNegation(renamed, cl.head))
    IN addDeltaNegations(named, scc, atoms, j + 1)

\* the rewritten clause r1 of version j (j is the index in the body atoms)
recursiveClauseVersion(cl, scc, name, j) ==
    LET atoms == BodyAtoms(cl)
        renamed == [cl EXCEPT !.head.name = getNewRelationName(name),
                              !.body[atoms[j]].name = getDeltaRelationName(@)]
        named == nameUnnamedVariables(addNegation(renamed, cl.head))
    IN addDeltaNegations(named, scc, atoms, j + 1)

\* the versions numbered with the index of the atom in the body instead of
\* the count of the SCC atoms met so far
RECURSIVE clauseVersionsFrom_AtomIndex(_, _, _, _, _, _, _, _)
clauseVersionsFrom_AtomIndex(prog, cfg, scc, name, cl, j, version, res) ==
    IF j > Len(BodyAtoms(cl)) THEN res
    ELSE IF ~inScc(scc, AtomAt(cl, BodyAtoms(cl)[j]))
    THEN clauseVersionsFrom_AtomIndex(prog, cfg, scc, name, cl, j + 1, version, res)
    ELSE clauseVersionsFrom_AtomIndex(prog, cfg, scc, name, cl, j + 1, version + 1,
            appendStmt(res,
                loggedRule(cfg,
                    translateClause(prog, cfg, recursiveClauseVersion(cl, scc, name, j),
                                    cl, j - 1),
                    tRecursiveRule(name, j - 1),
                    getNewRelationName(name))))

\* the versions of one clause: the loop over the body atoms j, version
\* counting the atoms of the component met so far
RECURSIVE clauseVersionsFrom(_, _, _, _, _, _, _, _)
clauseVersionsFrom(prog, cfg, scc, name, cl, j, version, res) ==
    IF j > Len(BodyAtoms(cl)) THEN res
    ELSE IF ~inScc(scc, AtomAt(cl, BodyAtoms(cl)[j]))
    THEN clauseVersionsFrom(prog, cfg, scc, name, cl, j + 1, version, res)
    ELSE clauseVersionsFrom(prog, cfg, scc, name, cl, j + 1, version + 1,
            appendStmt(res,
                loggedRule(cfg,
                    translateClause(prog, cfg, recursiveClauseVersion(cl, scc, name, j),
                                    cl, version),
                    tRecursiveRule(name, version),
                    getNewRelationName(name))))

\* the number of versions created for a clause
numberOfVersions(cl, scc) ==
    Cardinality({j \in DOMAIN BodyAtoms(cl) : inScc(scc, AtomAt(cl, BodyAtoms(cl)[j]))})

\* the assertion "missing clause versions" holds for the clause
hasAllPlannedVersions(cl, scc) ==
    \A v \in DOMAIN cl.plan : numberOfVersions(cl, scc) > v

RECURSIVE recursiveClauseVersionsOf(_, _, _, _, _, _)
recursiveClauseVersionsOf(prog, cfg, scc, name, clauses, res) ==
    IF clauses = <<>> THEN res
    ELSE recursiveClauseVersionsOf(prog, cfg, scc, name, Tail(clauses),
            IF ~recursive(prog, Head(clauses)) THEN res
            ELSE clauseVersionsFrom(prog, cfg, scc, name, Head(clauses), 1, 0, res))

\* AstToRamTranslator::createRecursiveClauseVersions
createRecursiveClauseVersions(prog, cfg, scc, name) ==
    recursiveClauseVersionsOf(prog, cfg, scc, name, getClauses(prog, name), <<>>)

\* generateStratumPreamble with the copy into the delta relation placed
\* before the non-recursive clauses of the relation
generateStratumPreamble_CopyFirst(prog, cfg, scc) ==
    FlattenSeqs([i \in DOMAIN scc |->
        <<mergeRelations(prog, scc[i], getDeltaRelationName(scc[i]),
                         getConcreteRelationName(scc[i])),
          translateNonRecursiveRelation(prog, cfg, scc[i])>>])

\* AstToRamTranslator::generateStratumPreamble
generateStratumPreamble(prog, cfg, scc) ==
    FlattenSeqs([i \in DOMAIN scc |->
        <<translateNonRecursiveRelation(prog, cfg, scc[i]),
          mergeRelations(prog, scc[i], getDeltaRelationName(scc[i]),
                         getConcreteRelationName(scc[i]))>>])

\* generateStratumPostamble without the Clear of the @new_ relation
generateStratumPostamble_KeepsNew(scc) ==
    FlattenSeqs([i \in DOMAIN scc |->
        <<Clear(getDeltaRelationName(scc[i]))>>])

\* AstToRamTranslator::generateStratumPostamble
generateStratumPostamble(scc) ==
    FlattenSeqs([i \in DOMAIN scc |->
        <<Clear(getDeltaRelationName(scc[i])), Clear(getNewRelationName(scc[i]))>>])

\* generateStratumTableUpdates with the swap before the copy
generateStratumTableUpdates_SwapFirst(prog, cfg, scc) ==
    [i \in DOMAIN scc |->
        Sequence(<<Swap(getDeltaRelationName(scc[i]), getNewRelationName(scc[i])),
                   mergeRelations(prog, scc[i], getConcreteRelationName(scc[i]),
                                  getNewRelationName(scc[i])),
                   Clear(getNewRelationName(scc[i]))>>)]

\* generateStratumTableUpdates without the Clear of the @new_ relation
generateStratumTableUpdates_KeepsNew(prog, cfg, scc) ==
    [i \in DOMAIN scc |->
        Sequence(<<mergeRelations(prog, scc[i], getConcreteRelationName(scc[i]),
                                  getNewRelationName(scc[i])),
                   Swap(getDeltaRelationName(scc[i]), getNewRelationName(scc[i]))>>)]

\* AstToRamTranslator::generateStratumTableUpdates
generateStratumTableUpdates(prog, cfg, scc) ==
    [i \in DOMAIN scc |->
        LET updateRelTable ==
                Sequence(<<mergeRelations(prog, scc[i], getConcreteRelationName(scc[i]),
                                          getNewRelationName(scc[i])),
                           Swap(getDeltaRelationName(scc[i]), getNewRelationName(scc[i])),
                           Clear(getNewRelationName(scc[i]))>>)
        IN IF cfg.profile
           THEN LogRelationTimer(updateRelTable,
                    LogStatement("@c-recursive-relation", scc[i]),
                    getNewRelationName(scc[i]))
           ELSE updateRelTable]

\* the loop statements of one relation: none if it has no recursive rule
loggedLoop(cfg, loopRelSeq, name) ==
    IF loopRelSeq = <<>> THEN <<>>
    ELSE IF cfg.profile
    THEN <<Sequence(<<LogRelationTimer(Sequence(loopRelSeq),
                        LogStatement("@t-recursive-relation", name),
                        getNewRelationName(name))>>)>>
    ELSE <<Sequence(loopRelSeq)>>

\* AstToRamTranslator::generateStratumMainLoop
generateStratumMainLoop(prog, cfg, scc) ==
    FlattenSeqs([i \in DOMAIN scc |->
        loggedLoop(cfg, createRecursiveClauseVersions(prog, cfg, scc, scc[i]), scc[i])])

\* generateStratumExitConditions with the emptiness of the first relation
\* of the component only
generateStratumExitConditions_FirstOnly(prog, scc) ==
    <<Exit(EmptinessCheck(getNewRelationName(scc[1])))>>

\* generateStratumExitConditions with the limit compared with the size of
\* the @new_ relation
generateStratumExitConditions_SizeOfNew(prog, scc) ==
    LET emptinessCheck ==
            toCondition([i \in DOMAIN scc |-> EmptinessCheck(getNewRelationName(scc[i]))])
        limits == FlattenSeqs([i \in DOMAIN scc |->
            IF prog.relations[scc[i]].limitsize > 0
            THEN <<Exit(Constraint("GE", RelationSize(getNewRelationName(scc[i])),
                                   SignedConstant(prog.relations[scc[i]].limitsize)))>>
            ELSE <<>>])
    IN <<Exit(emptinessCheck)>> \o limits

\* AstToRamTranslator::generateStratumExitConditions
generateStratumExitConditions(prog, scc) ==
    LET emptinessCheck ==
            toCondition([i \in DOMAIN scc |-> EmptinessCheck(getNewRelationName(scc[i]))])
        limits == FlattenSeqs([i \in DOMAIN scc |->
            IF prog.relations[scc[i]].limitsize > 0
            THEN <<Exit(Constraint("GE", RelationSize(getConcreteRelationName(scc[i])),
                                   SignedConstant(prog.relations[scc[i]].limitsize)))>>
            ELSE <<>>])
    IN <<Exit(emptinessCheck)>> \o limits

\* the fixpoint loop with the update placed before the exit conditions
fixpoint_UpdateFirst(preamble, loopSeq, updateTable, exitConditions, postamble) ==
    Sequence(
        (IF preamble # <<>> THEN <<Sequence(preamble)>> ELSE <<>>)
        \o (IF loopSeq # <<>> /\ exitConditions # <<>> /\ updateTable # <<>>
            THEN <<Loop(Sequence(<<Parallel(loopSeq), Sequence(updateTable),
                                   Sequence(exitConditions)>>))>>
            ELSE <<>>)
        \o (IF postamble # <<>> THEN <<Sequence(postamble)>> ELSE <<>>))

\* the sections combined into the fixpoint loop
fixpoint(preamble, loopSeq, updateTable, exitConditions, postamble) ==
    Sequence(
        (IF preamble # <<>> THEN <<Sequence(preamble)>> ELSE <<>>)
        \o (IF loopSeq # <<>> /\ exitConditions # <<>> /\ updateTable # <<>>
            THEN <<Loop(Sequence(<<Parallel(loopSeq), Sequence(exitConditions),
                                   Sequence(updateTable)>>))>>
            ELSE <<>>)
        \o (IF postamble # <<>> THEN <<Sequence(postamble)>> ELSE <<>>))

\* AstToRamTranslator::translateRecursiveRelation
translateRecursiveRelation(prog, cfg, scc) ==
    fixpoint(generateStratumPreamble(prog, cfg, scc),
             generateStratumMainLoop(prog, cfg, scc),
             generateStratumTableUpdates(prog, cfg, scc),
             generateStratumExitConditions(prog, scc),
             generateStratumPostamble(scc))

\* AstToRamTranslator::getInputDirectives / getOutputDirectives: the
\* parameters of the matching directives, an empty directive if there is none
EmptyDirective == [operation |-> "none"]

directivesOfType(prog, name, types) ==
    LET all == prog.relations[name].directives
        ks == SeqOfSet({k \in DOMAIN all : all[k].type \in types})
    IN IF ks = <<>> THEN <<EmptyDirective>>
       ELSE [i \in DOMAIN ks |-> all[ks[i]].params]

getInputDirectives(prog, name) == directivesOfType(prog, name, {"input"})
getOutputDirectives(prog, name) == directivesOfType(prog, name, {"printsize", "output"})

ioStatements(cfg, name, directives) ==
    [i \in DOMAIN directives |->
        LET statement == IO(getConcreteRelationName(name), directives[i])
        IN IF cfg.profile
           THEN LogRelationTimer(statement, LogStatement("@t-relation-io", name),
                                 getConcreteRelationName(name))
           ELSE statement]

\* AstToRamTranslator::makeRamLoad, makeRamStore: the statements appended
makeRamLoad(prog, cfg, name) == ioStatements(cfg, name, getInputDirectives(prog, name))
makeRamStore(prog, cfg, name) == ioStatements(cfg, name, getOutputDirectives(prog, name))

\* AstToRamTranslator::clearExpiredRelations
clearExpiredRelations(expiredRelations) ==
    [i \in DOMAIN expiredRelations |-> Clear(getConcreteRelationName(expiredRelations[i]))]

\* translateSCC with the expired relations cleared before the stores
translateSCC_ClearFirst(prog, cfg, scc, idx) ==
    LET node == prog.sccGraph[scc]
        loads == FlattenSeqs([i \in DOMAIN node.inputs |->
                    makeRamLoad(prog, cfg, node.inputs[i])])
        bodyStatement == IF ~node.recursive
                         THEN translateNonRecursiveRelation(prog, cfg, node.relations[1])
                         ELSE translateRecursiveRelation(prog, cfg, node.relations)
        stores == FlattenSeqs([i \in DOMAIN node.outputs |->
                    makeRamStore(prog, cfg, node.outputs[i])])
    IN Sequence(appendStmt(loads, bodyStatement)
                    \o clearExpiredRelations(prog.expired[idx + 1]) \o stores)

\* AstToRamTranslator::translateSCC; idx is the 0-based index in the ordering
translateSCC(prog, cfg, scc, idx) ==
    LET node == prog.sccGraph[scc]
        loads == FlattenSeqs([i \in DOMAIN node.inputs |->
                    makeRamLoad(prog, cfg, node.inputs[i])])
        bodyStatement == IF ~node.recursive
                         THEN translateNonRecursiveRelation(prog, cfg, node.relations[1])
                         ELSE translateRecursiveRelation(prog, cfg, node.relations)
        stores == FlattenSeqs([i \in DOMAIN node.outputs |->
                    makeRamStore(prog, cfg, node.outputs[i])])
    IN Sequence(appendStmt(loads, bodyStatement) \o stores
                    \o clearExpiredRelations(prog.expired[idx + 1]))

\* createRamRelation with the delta relation declared without the
\* representation of the relation
createRamRelation_DeltaDefault(prog, scc) ==
    LET node == prog.sccGraph[scc]
    IN FlattenSeqs([i \in DOMAIN node.relations |->
        LET name == node.relations[i]
            rel == prog.relations[name]
            attributeNames == [k \in 1..rel.arity |-> rel.attributes[k]]
            attributeTypeQualifiers == [k \in 1..rel.arity |-> rel.attributeTypes[k]]
            ramRelation == RamRelation(getConcreteRelationName(name), rel.arity,
                    rel.auxArity, attributeNames, attributeTypeQualifiers,
                    rel.representation)
            deltaRelation == RamRelation(getDeltaRelationName(name), rel.arity,
                    rel.auxArity, attributeNames, attributeTypeQualifiers,
                    "DEFAULT")
            newRelation == RamRelation(getNewRelationName(name), rel.arity,
                    rel.auxArity, attributeNames, attributeTypeQualifiers,
                    rel.representation)
        IN IF node.recursive
           THEN <<ramRelation, deltaRelation, newRelation>>
           ELSE <<ramRelation>>])

\* AstToRamTranslator::createRamRelation: the relations handed to
\* addRamRelation for one component, in order
createRamRelation(prog, scc) ==
    LET node == prog.sccGraph[scc]
    IN FlattenSeqs([i \in DOMAIN node.relations |->
        LET name == node.relations[i]
            rel == prog.relations[name]
            attributeNames == [k \in 1..rel.arity |-> rel.attributes[k]]
            attributeTypeQualifiers == [k \in 1..rel.arity |-> rel.attributeTypes[k]]
            ramRelation == RamRelation(getConcreteRelationName(name), rel.arity,
                    rel.auxArity, attributeNames, attributeTypeQualifiers,
                    rel.representation)
            deltaRelation == RamRelation(getDeltaRelationName(name), rel.arity,
                    rel.auxArity, attributeNames, attributeTypeQualifiers,
                    rel.representation)
            newRelation == RamRelation(getNewRelationName(name), rel.arity,
                    rel.auxArity, attributeNames, attributeTypeQualifiers,
                    rel.representation)
        IN IF node.recursive
           THEN <<ramRelation, deltaRelation, newRelation>>
           ELSE <<ramRelation>>])

\* the name of the subroutine of the i-th stratum (i counts from 0)
stratumID(i) == "stratum_" \o ToString(i)

\* the main statement inside a LogTimer whether profiling or not
mainProgram_AlwaysTimed(prog, cfg) ==
    Sequence(<<LogTimer(Sequence([i \in DOMAIN prog.sccOrdering |-> Call(stratumID(i - 1))]))>>)

\* AstToRamTranslator::translateProgram, the main program: a call per stratum
mainProgram(prog, cfg) ==
    LET res == [i \in DOMAIN prog.sccOrdering |-> Call(stratumID(i - 1))]
    IN IF Len(res) > 0 /\ cfg.profile
       THEN Sequence(<<LogTimer(Sequence(res))>>)
       ELSE Sequence(res)

(***************************************************************************)
(* Evaluation of RAM: expressions, conditions and the operation of a       *)
(* query.  A database maps a relation name to its set of tuples; an        *)
(* environment maps the level of an enclosing scan to its tuple.           *)
(***************************************************************************)
\* the value of an undefined expression: it matches every value of a tuple
Undef == -1

EvalExpr(e, env, db) ==
    CASE e.kind = "TupleElement" -> env[e.level][e.col + 1]
      [] e.kind = "SignedConstant" -> e.val
      [] e.kind = "UndefValue" -> Undef
      [] e.kind = "RelationSize" -> Cardinality(db[e.rel])

EvalValues(values, env, db) == [i \in DOMAIN values |-> EvalExpr(values[i], env, db)]

EvalConstraint(op, l, r) ==
    CASE op = "EQ" -> l = r
      [] op = "NE" -> l # r
      [] op = "LT" -> l < r
      [] op = "LE" -> l <= r
      [] op = "GT" -> l > r
      [] op = "GE" -> l >= r

RECURSIVE EvalCond(_, _, _)
EvalCond(c, env, db) ==
    CASE c.kind = "True" -> TRUE
      [] c.kind = "Conjunction" -> EvalCond(c.lhs, env, db) /\ EvalCond(c.rhs, env, db)
      [] c.kind = "Negation" -> ~EvalCond(c.arg, env, db)
      [] c.kind = "EmptinessCheck" -> db[c.rel] = {}
      [] c.kind = "ExistenceCheck" ->
            LET vs == EvalValues(c.values, env, db)
            IN \E t \in db[c.rel] : \A i \in DOMAIN vs : vs[i] = Undef \/ vs[i] = t[i]
      [] c.kind = "Constraint" ->
            EvalConstraint(c.cop, EvalExpr(c.lhs, env, db), EvalExpr(c.rhs, env, db))

\* the tuples a nested operation inserts, as pairs <<relation, tuple>>
RECURSIVE EvalOp(_, _, _)
EvalOp(op, env, db) ==
    CASE op.kind = "Scan" ->
            UNION {EvalOp(op.inner, (op.level :> t) @@ env, db) : t \in db[op.rel]}
      [] op.kind = "Filter" ->
            IF EvalCond(op.cond, env, db) THEN EvalOp(op.inner, env, db) ELSE {}
      [] op.kind = "Break" ->
            IF EvalCond(op.cond, env, db) THEN {} ELSE EvalOp(op.inner, env, db)
      [] op.kind \in {"Insert", "Project"} ->
            {<<op.rel, EvalValues(op.values, env, db)>>}
      [] op.kind = "GuardedInsert" ->
            IF EvalCond(op.cond, env, db)
            THEN {<<op.rel, EvalValues(op.values, env, db)>>} ELSE {}

\* the database after the insertions
Inserted(db, ins) ==
    [r \in DOMAIN db |-> db[r] \cup {p[2] : p \in {q \in ins : q[1] = r}}]

(***************************************************************************)
(* The programs translated and run.  Every program reads the binary input  *)
(* relation edge from the fact files.                                      *)
(***************************************************************************)
Directive(t) == [type |-> t, params |-> [operation |-> t]]

Relation(arity, rep, dirs, limit) ==
    [arity |-> arity, auxArity |-> 0,
     attributes |-> [k \in 1..arity |-> "a" \o ToString(k)],
     attributeTypes |-> [k \in 1..arity |-> "i:number"],
     representation |-> rep, functionalDependencies |-> <<>>,
     directives |-> dirs, limitsize |-> limit]

SccNode(rels, rec, ins, outs) ==
    [relations |-> rels, recursive |-> rec, inputs |-> ins, outputs |-> outs]

VarX == Variable("x")
VarY == Variable("y")
VarZ == Variable("z")

EdgeRelation == Relation(2, "DEFAULT", <<Directive("input")>>, 0)

\* path(x,y) :- edge(x,y).  path(x,z) :- edge(x,y), path(y,z).
LinearPath(limit) ==
    [relations |-> [edge |-> EdgeRelation,
                    path |-> Relation(2, "BTREE", <<Directive("output")>>, limit)],
     clauses |-> <<Rule(Atom("path", <<VarX, VarY>>), <<Atom("edge", <<VarX, VarY>>)>>),
                   Rule(Atom("path", <<VarX, VarZ>>),
                        <<Atom("edge", <<VarX, VarY>>), Atom("path", <<VarY, VarZ>>)>>)>>,
     sccGraph |-> <<SccNode(<<"edge">>, FALSE, <<"edge">>, <<>>),
                    SccNode(<<"path">>, TRUE, <<>>, <<"path">>)>>,
     sccOrdering |-> <<1, 2>>,
     expired |-> <<<<>>, <<"edge">>>>]

\* path(x,y) :- edge(x,y).  path(x,z) :- path(x,y), path(y,z).
NonLinearPath ==
    [LinearPath(0) EXCEPT
        !.clauses[2] = Rule(Atom("path", <<VarX, VarZ>>),
                            <<Atom("path", <<VarX, VarY>>), Atom("path", <<VarY, VarZ>>)>>)]

\* a(x,y) :- edge(x,y).  b(x,z) :- a(x,y), edge(y,z).  a(x,z) :- b(x,y), edge(y,z).
\* The component {a, b} comes first in the graph and second in the order.
MutualRecursion ==
    [relations |-> [edge |-> EdgeRelation,
                    a |-> Relation(2, "DEFAULT", <<Directive("output")>>, 0),
                    b |-> Relation(2, "DEFAULT", <<Directive("printsize")>>, 0)],
     clauses |-> <<Rule(Atom("a", <<VarX, VarY>>), <<Atom("edge", <<VarX, VarY>>)>>),
                   Rule(Atom("b", <<VarX, VarZ>>),
                        <<Atom("a", <<VarX, VarY>>), Atom("edge", <<VarY, VarZ>>)>>),
                   Rule(Atom("a", <<VarX, VarZ>>),
                        <<Atom("b", <<VarX, VarY>>), Atom("edge", <<VarY, VarZ>>)>>)>>,
     sccGraph |-> <<SccNode(<<"a", "b">>, TRUE, <<>>, <<"a", "b">>),
                    SccNode(<<"edge">>, FALSE, <<"edge">>, <<>>)>>,
     sccOrdering |-> <<2, 1>>,
     expired |-> <<<<>>, <<>>>>]

\* a(x,y) :- edge(x,y).  b(y,x) :- a(x,y).  a(x,z) :- b(x,y), edge(y,z).
\* with .limitsize b(n=1): the second iteration of the loop derives tuples
\* of a from the tuples of b the first one has merged.
LimitedMutualRecursion ==
    [MutualRecursion EXCEPT
        !.relations.b = Relation(2, "DEFAULT", <<Directive("printsize")>>, 1),
        !.clauses[2] = Rule(Atom("b", <<VarY, VarX>>), <<Atom("a", <<VarX, VarY>>)>>)]

\* reach(x) :- edge(x,_).  reach(y) :- reach(x), edge(x,y).
\* cyclic() :- reach(x), edge(x,x).  reach(x) :- cyclic(), edge(_,x).
\* cyclic() :- edge(x,x).
\* The nullary relation cyclic is in the component of reach.
NullaryInComponent ==
    [relations |-> [edge |-> EdgeRelation,
                    reach |-> Relation(1, "DEFAULT", <<Directive("output")>>, 0),
                    cyclic |-> Relation(0, "DEFAULT", <<Directive("output")>>, 0)],
     clauses |-> <<Rule(Atom("reach", <<VarX>>), <<Atom("edge", <<VarX, UnnamedVariable>>)>>),
                   Rule(Atom("reach", <<VarY>>),
                        <<Atom("reach", <<VarX>>), Atom("edge", <<VarX, VarY>>)>>),
                   Rule(Atom("cyclic", <<>>),
                        <<Atom("reach", <<VarX>>), Atom("edge", <<VarX, VarX>>)>>),
                   Rule(Atom("reach", <<VarX>>),
                        <<Atom("cyclic", <<>>), Atom("edge", <<UnnamedVariable, VarX>>)>>),
                   Rule(Atom("cyclic", <<>>), <<Atom("edge", <<VarX, VarX>>)>>)>>,
     sccGraph |-> <<SccNode(<<"edge">>, FALSE, <<"edge">>, <<>>),
                    SccNode(<<"cyclic", "reach">>, TRUE, <<>>, <<"cyclic", "reach">>)>>,
     sccOrdering |-> <<1, 2>>,
     expired |-> <<<<>>, <<"edge">>>>]

\* odd(x) :- edge(x,_), !odd(x).  The component of odd is recursive in the
\* graph by the negated atom, and none of its clauses is recursive.
NoRecursiveClause ==
    [relations |-> [edge |-> EdgeRelation,
                    odd |-> Relation(1, "DEFAULT", <<Directive("output")>>, 0)],
     clauses |-> <<Rule(Atom("odd", <<VarX>>),
                        <<Atom("edge", <<VarX, UnnamedVariable>>),
                          Negation(Atom("odd", <<VarX>>))>>)>>,
     sccGraph |-> <<SccNode(<<"edge">>, FALSE, <<"edge">>, <<>>),
                    SccNode(<<"odd">>, TRUE, <<>>, <<"odd">>)>>,
     sccOrdering |-> <<1, 2>>,
     expired |-> <<<<>>, <<>>>>]

\* NonLinearPath with path declared as an equivalence relation
EquivalencePath == [NonLinearPath EXCEPT !.relations.path.representation = "EQREL"]

\* out(x) :- edge(x,_).  silent(x) :- out(x).
\* edge has two input directives; out is an input and an output relation
\* with an input, an output and a printsize directive; silent is an input
\* and an output relation without directives.
IoDirectives ==
    [relations |-> [edge |-> Relation(2, "DEFAULT",
                                <<Directive("input"), Directive("input")>>, 0),
                    out |-> Relation(1, "DEFAULT",
                                <<Directive("input"), Directive("output"),
                                  Directive("printsize")>>, 0),
                    silent |-> Relation(1, "DEFAULT", <<>>, 0)],
     clauses |-> <<Rule(Atom("out", <<VarX>>), <<Atom("edge", <<VarX, UnnamedVariable>>)>>),
                   Rule(Atom("silent", <<VarX>>), <<Atom("out", <<VarX>>)>>)>>,
     sccGraph |-> <<SccNode(<<"edge">>, FALSE, <<"edge">>, <<>>),
                    SccNode(<<"out">>, FALSE, <<"out">>, <<"out">>),
                    SccNode(<<"silent">>, FALSE, <<"silent">>, <<"silent">>)>>,
     sccOrdering |-> <<1, 2, 3>>,
     expired |-> <<<<>>, <<"edge">>, <<"out">>>>]

\* a program without relations: its SCC graph has no component
NoRelations ==
    [relations |-> <<>>, clauses |-> <<>>, sccGraph |-> <<>>, sccOrdering |-> <<>>,
     expired |-> <<>>]

Programs ==
    {LinearPath(0), LinearPath(1), NonLinearPath, MutualRecursion,
     NullaryInComponent, NoRecursiveClause, EquivalencePath, IoDirectives,
     NoRelations, LimitedMutualRecursion}

NoStats == [relSize |-> <<>>, uniqueKeys |-> <<>>]

Configs ==
    {[profile |-> b, autoSchedule |-> FALSE, stats |-> NoStats] : b \in BOOLEAN}

\* the contents of the fact file of edge
FactFiles ==
    {[edge |-> S] : S \in {T \in SUBSET (Vals \X Vals) : Cardinality(T) <= MaxFacts}}

(***************************************************************************)
(* The state: the translation unit and the configuration, the translator's *)
(* position in translateProgram, the RAM program built so far, and the     *)
(* run of the RAM program (database, control stack, stored outputs).       *)
(***************************************************************************)
VARIABLES
    program,          \* the AST program with its analyses
    config,           \* Global::config()
    pc,               \* [phase, i]: the position in translateProgram / the run
    ramRelations,     \* the relations added by addRamRelation, in order
    ramSubroutines,   \* subroutine name -> statement
    ramMain,          \* the main statement
    failed,           \* the assertion that failed, "" if none
    facts,            \* the fact files
    db,               \* relation name -> set of tuples
    stores,           \* the relations written by a store: tuples or size
    stack,            \* the control stack of the run
    finished,         \* the subroutines that have returned
    iteration,        \* the statements run in the current loop iteration
    lastExit,         \* the condition of the Exit that ended the last loop
    input,            \* the input of a translator function
    output,           \* the result of a translator function
    isProvenance      \* the static of constructNodeType: [guard, value]

\* a function-local static before its initializer has run
NotInitialized == [guard |-> FALSE, value |-> FALSE]

vars == <<program, config, pc, ramRelations, ramSubroutines, ramMain, failed,
          facts, db, stores, stack, finished, iteration, lastExit, input, output,
          isProvenance>>

transVars == <<ramRelations, ramSubroutines, ramMain, failed>>
runVars == <<db, stores, stack, finished, iteration, lastExit>>
unitVars == <<program, config, facts, input, output, isProvenance>>

Position(phase, i) == [phase |-> phase, i |-> i]

NoStatement == [kind |-> "null"]
RelationNames(rels) == {rels[i].name : i \in DOMAIN rels}

(***************************************************************************)
(* AstToRamTranslator::removeADTs: the erasure of the sum types.           *)
(*                                                                         *)
(* The mapper ADTsFuneral is applied to every node of the program, the     *)
(* children of a node first (Node::apply).  A mapped node comes with the   *)
(* flag "changed" of the mapper.                                           *)
(***************************************************************************)
\* greatest nesting depth of the arguments drawn
MaxDepth == 2

Aggregator(t, b) == [kind |-> "Aggregator", target |-> t, body |-> b]

\* AlgebraicDataType::Branch: a constructor and the number of its fields
Branch(name, arity) == [name |-> name, arity |-> arity]

\* SumTypeBranchesAnalysis: the sum types, their branches sorted by name
SumTypes ==
    [Colour |-> <<Branch("Blue", 0), Branch("Green", 0), Branch("Red", 0)>>,
     Shape |-> <<Branch("Circle", 1), Branch("Empty", 0), Branch("Rect", 2)>>,
     Tree |-> <<Branch("Leaf", 0), Branch("Node", 2)>>]

\* SumTypeBranchesAnalysis::unsafeGetType: the branches of the type of a
\* constructor
unsafeGetType(ctor) ==
    SumTypes[CHOOSE t \in DOMAIN SumTypes :
                \E i \in DOMAIN SumTypes[t] : SumTypes[t][i].name = ctor]

\* operator< on the names of the constructors: the lexicographic order
NameOrder == <<"Blue", "Circle", "Empty", "Green", "Leaf", "Node", "Rect", "Red">>
NameRank(n) == CHOOSE i \in DOMAIN NameOrder : NameOrder[i] = n
NameLess(a, b) == NameRank(a) < NameRank(b)

\* std::distance(begin, std::lower_bound(begin, end, name, less-by-name))
lower_bound(branches, name) ==
    LET notLess == {i \in DOMAIN branches : ~NameLess(branches[i].name, name)}
    IN IF notLess = {} THEN Len(branches)
       ELSE (CHOOSE i \in notLess : \A j \in notLess : i <= j) - 1

\* isADTEnum: every branch is nullary
isADTEnum(branches) == \A i \in DOMAIN branches : branches[i].arity = 0

Mapped(node, changed) == [node |-> node, changed |-> changed]
nodesOf(rs) == [i \in DOMAIN rs |-> rs[i].node]
anyChanged(rs) == \E i \in DOMAIN rs : rs[i].changed

\* eraseBranch with a single argument wrapped in a record of its own
eraseBranch_AlwaysNested(adt) ==
    IF isADTEnum(unsafeGetType(adt.ctor))
    THEN NumericConstant(lower_bound(unsafeGetType(adt.ctor), adt.ctor))
    ELSE RecordInit(<<NumericConstant(lower_bound(unsafeGetType(adt.ctor), adt.ctor)),
                      RecordInit(adt.args)>>)

\* the record or the constant that stands for a constructor whose arguments
\* are rewritten already
eraseBranch(adt) ==
    IF isADTEnum(unsafeGetType(adt.ctor))
    THEN NumericConstant(lower_bound(unsafeGetType(adt.ctor), adt.ctor))
    ELSE RecordInit(<<NumericConstant(lower_bound(unsafeGetType(adt.ctor), adt.ctor)),
                      IF Len(adt.args) # 1 THEN RecordInit(adt.args) ELSE adt.args[1]>>)

withArgs(node, rs) == Mapped([node EXCEPT !.args = nodesOf(rs)], anyChanged(rs))
withAtom(node, r) == Mapped([node EXCEPT !.atom = r.node], r.changed)
withSides(node, l, r) ==
    Mapped([node EXCEPT !.lhs = l.node, !.rhs = r.node], l.changed \/ r.changed)
withTargetAndBody(node, t, rs) ==
    Mapped([node EXCEPT !.target = t.node, !.body = nodesOf(rs)],
           t.changed \/ anyChanged(rs))
withHeadAndBody(node, h, rs) ==
    Mapped([node EXCEPT !.head = h.node, !.body = nodesOf(rs)],
           h.changed \/ anyChanged(rs))

RECURSIVE ADTsFuneral(_)

\* Node::apply(mapper): the children of a node are replaced by their images
applyMapper(node) ==
    IF "kind" \notin DOMAIN node
    THEN withHeadAndBody(node, ADTsFuneral(node.head),
            [i \in DOMAIN node.body |-> ADTsFuneral(node.body[i])])
    ELSE CASE node.kind \in {"Atom", "RecordInit", "BranchInit", "IntrinsicFunctor"} ->
                withArgs(node, [i \in DOMAIN node.args |-> ADTsFuneral(node.args[i])])
           [] node.kind = "Negation" -> withAtom(node, ADTsFuneral(node.atom))
           [] node.kind = "BinaryConstraint" ->
                withSides(node, ADTsFuneral(node.lhs), ADTsFuneral(node.rhs))
           [] node.kind = "Aggregator" ->
                withTargetAndBody(node, ADTsFuneral(node.target),
                    [i \in DOMAIN node.body |-> ADTsFuneral(node.body[i])])
           [] OTHER -> Mapped(node, FALSE)

\* the rewriting of a node whose sub-expressions are rewritten
rewriteBranch(r) ==
    IF r.node.kind # "BranchInit" THEN r
    ELSE Mapped(eraseBranch(r.node), TRUE)

\* a constructor rewritten before its sub-expressions are visited
ADTsFuneral_EarlyReturn(node) ==
    IF "kind" \in DOMAIN node /\ node.kind = "BranchInit"
    THEN Mapped(eraseBranch(node), TRUE)
    ELSE applyMapper(node)

\* ADTsFuneral::operator(): sub-expressions first, then the node itself
ADTsFuneral(node) ==
    IF "kind" \notin DOMAIN node THEN applyMapper(node)
    ELSE rewriteBranch(applyMapper(node))

\* translationUnit.getProgram().apply(mapper); return mapper.changed
mappedClauses(prog, rs) ==
    [program |-> [prog EXCEPT !.clauses = nodesOf(rs)], changed |-> anyChanged(rs)]

\* AstToRamTranslator::removeADTs
removeADTs(prog) ==
    mappedClauses(prog, [i \in DOMAIN prog.clauses |-> ADTsFuneral(prog.clauses[i])])

Init ==
    /\ program \in Programs
    /\ config \in Configs
    /\ facts \in FactFiles
    /\ pc = Position("removeADTs", 0)
    /\ ramRelations = <<>>
    /\ ramSubroutines = <<>>
    /\ ramMain = NoStatement
    /\ failed = ""
    /\ db = <<>>
    /\ stores = {}
    /\ stack = <<>>
    /\ finished = {}
    /\ iteration = <<>>
    /\ lastExit = NoCondition
    /\ isProvenance = NotInitialized
    /\ input = <<>>
    /\ output = <<>>

\* AstToRamTranslator::addRamRelation for each relation of rels, in order
RECURSIVE addRamRelations(_, _)
addRamRelations(st, rels) ==
    IF rels = <<>> \/ st.failed # "" THEN st
    ELSE IF Head(rels).name \in RelationNames(st.relations)
    THEN [st EXCEPT !.failed = "ram relation should not already exist"]
    ELSE addRamRelations([st EXCEPT !.relations = Append(@, Head(rels))], Tail(rels))

\* sccGraph->getNumberOfSCCs()
getNumberOfSCCs(prog) == Len(prog.sccGraph)

\* an empty Sequence inside the timer of the main program
emptySequence_Timed == Sequence(<<LogTimer(Sequence(<<>>))>>)

\* mk<ram::Sequence>() of the empty SCC graph
emptySequence == Sequence(<<>>)

\* translateProgram: removeADTs(translationUnit), before any translation
RemoveADTs ==
    /\ pc.phase = "removeADTs"
    /\ program' = removeADTs(program).program
    /\ pc' = IF getNumberOfSCCs(program) = 0
             THEN Position("empty", 0)
             ELSE Position("createRamRelation", 1)
    /\ UNCHANGED <<config, facts, input, output, isProvenance, transVars, runVars>>

\* translateProgram: the SCC graph is empty, the empty Sequence is returned
ReturnEmpty ==
    /\ pc.phase = "empty"
    /\ ramMain' = emptySequence
    /\ db' = [n \in RelationNames(ramRelations) |-> {}]
    /\ stack' = <<[k |-> "seq", todo |-> <<emptySequence>>, call |-> ""]>>
    /\ pc' = Position("run", 0)
    /\ UNCHANGED <<ramRelations, ramSubroutines, failed>>
    /\ UNCHANGED <<stores, finished, iteration, lastExit>>
    /\ UNCHANGED unitVars

\* translateProgram: createRamRelation(scc) for the next scc of the ordering
CreateRamRelation ==
    /\ pc.phase = "createRamRelation" /\ failed = ""
    /\ pc.i <= Len(program.sccOrdering)
    /\ LET st == addRamRelations([relations |-> ramRelations, failed |-> ""],
                    createRamRelation(program, program.sccOrdering[pc.i]))
       IN /\ ramRelations' = st.relations
          /\ failed' = st.failed
    /\ pc' = IF pc.i = Len(program.sccOrdering)
             THEN Position("translateSCC", 1)
             ELSE Position("createRamRelation", pc.i + 1)
    /\ UNCHANGED <<ramSubroutines, ramMain>>
    /\ UNCHANGED runVars /\ UNCHANGED unitVars

\* translateProgram: translateSCC and addRamSubroutine for the next stratum
TranslateSCC ==
    /\ pc.phase = "translateSCC" /\ failed = ""
    /\ pc.i <= Len(program.sccOrdering)
    /\ LET sccCode == translateSCC(program, config, program.sccOrdering[pc.i], pc.i - 1)
           id == stratumID(pc.i - 1)
       IN IF id \in DOMAIN ramSubroutines
          THEN /\ failed' = "subroutine ID should not already exist"
               /\ UNCHANGED ramSubroutines
          ELSE /\ ramSubroutines' = (id :> sccCode) @@ ramSubroutines
               /\ UNCHANGED failed
    /\ pc' = IF pc.i = Len(program.sccOrdering)
             THEN Position("main", 0)
             ELSE Position("translateSCC", pc.i + 1)
    /\ UNCHANGED <<ramRelations, ramMain>>
    /\ UNCHANGED runVars /\ UNCHANGED unitVars

\* translateProgram returns the main statement; the RAM program starts on
\* empty relations
TranslateMain ==
    /\ pc.phase = "main" /\ failed = ""
    /\ ramMain' = mainProgram(program, config)
    /\ db' = [n \in RelationNames(ramRelations) |-> {}]
    /\ stack' = <<[k |-> "seq", todo |-> <<mainProgram(program, config)>>, call |-> ""]>>
    /\ pc' = Position("run", 0)
    /\ UNCHANGED <<ramRelations, ramSubroutines, failed>>
    /\ UNCHANGED <<stores, finished, iteration, lastExit>>
    /\ UNCHANGED unitVars

(***************************************************************************)
(* The run of the RAM program.  The control stack holds a frame per        *)
(* statement entered: the statements a Sequence has still to run, a Loop   *)
(* with its body, a Parallel with the statements left to each of its       *)
(* children.  DebugInfo, LogRelationTimer and LogTimer run their nested    *)
(* statement.                                                              *)
(***************************************************************************)
Wrappers == {"DebugInfo", "LogRelationTimer", "LogTimer"}
LeafKinds == {"Query", "Clear", "Swap", "Extend", "IO", "LogSize"}

RECURSIVE Strip(_)
Strip(s) == IF s.kind \in Wrappers THEN Strip(s.stmt) ELSE s

\* the statements a child of a Parallel runs, in order
RECURSIVE Leaves(_)
Leaves(s) ==
    IF s.kind \in Wrappers THEN Leaves(s.stmt)
    ELSE IF s.kind = "Sequence"
    THEN FlattenSeqs([i \in DOMAIN s.stmts |-> Leaves(s.stmts[i])])
    ELSE <<s>>

SeqFrame(stmts, call) == [k |-> "seq", todo |-> stmts, call |-> call]
LoopFrame(body) == [k |-> "loop", body |-> body]
ParFrame(threads) == [k |-> "par", threads |-> threads]

Running == pc.phase = "run" /\ stack # <<>>
Top == stack[Len(stack)]
AtStatement == Running /\ Top.k = "seq" /\ Top.todo # <<>>
Current == Strip(Head(Top.todo))
\* the stack once the current statement of the top frame is done
Advanced == [stack EXCEPT ![Len(stack)].todo = Tail(@)]
Pushed(stk, frame) == Append(stk, frame)
Popped == SubSeq(stack, 1, Len(stack) - 1)

InLoop == \E i \in DOMAIN stack : stack[i].k = "loop"
InnermostLoop == CHOOSE i \in DOMAIN stack :
    stack[i].k = "loop" /\ \A j \in DOMAIN stack : stack[j].k = "loop" => j <= i
\* an event of the current loop iteration
Event(kind, inParallel) == [kind |-> kind, inParallel |-> inParallel]
\* a statement run outside a Parallel, with the database it ran on
Ran(s, before) == [kind |-> s.kind, inParallel |-> FALSE, stmt |-> s, before |-> before]
Recorded(ev) == IF InLoop THEN Append(iteration, ev) ELSE iteration

\* the tuples of the source of an Extend that share an element with a tuple
\* of its target
Related(source, target) ==
    {t \in source : \E u \in target : Range(t) \cap Range(u) # {}}

\* the effect of a statement without nested statements
ExecStatement(s, st) ==
    CASE s.kind = "Query" ->
            [st EXCEPT !.db = Inserted(st.db, EvalOp(s.operation, <<>>, st.db))]
      [] s.kind = "Clear" -> [st EXCEPT !.db[s.rel] = {}]
      [] s.kind = "Swap" ->
            [st EXCEPT !.db[s.first] = st.db[s.second], !.db[s.second] = st.db[s.first]]
      [] s.kind = "Extend" ->
            [st EXCEPT !.db[s.target] = @ \cup Related(st.db[s.source], @)]
      [] s.kind = "IO" ->
            IF s.directive.operation = "input"
            THEN [st EXCEPT !.db[s.rel] =
                    IF s.rel \in DOMAIN facts THEN @ \cup facts[s.rel] ELSE @]
            ELSE IF s.directive.operation = "output"
            THEN [st EXCEPT !.stores = @ \cup {<<s.rel, "output", st.db[s.rel]>>}]
            ELSE IF s.directive.operation = "printsize"
            THEN [st EXCEPT !.stores =
                    @ \cup {<<s.rel, "printsize", {<<Cardinality(st.db[s.rel])>>}>>}]
            ELSE st
      [] s.kind = "LogSize" -> st

\* Sequence: its statements run in order
EnterSequence ==
    /\ AtStatement /\ Current.kind = "Sequence"
    /\ stack' = Pushed(Advanced, SeqFrame(Current.stmts, ""))
    /\ UNCHANGED <<db, stores, finished, iteration, lastExit, pc>>
    /\ UNCHANGED transVars /\ UNCHANGED unitVars

\* Call: the body of the subroutine runs
CallSubroutine ==
    /\ AtStatement /\ Current.kind = "Call"
    /\ stack' = Pushed(Advanced, SeqFrame(<<ramSubroutines[Current.name]>>, Current.name))
    /\ UNCHANGED <<db, stores, finished, iteration, lastExit, pc>>
    /\ UNCHANGED transVars /\ UNCHANGED unitVars

\* the end of a Sequence or of a subroutine
EndSequence ==
    /\ Running /\ Top.k = "seq" /\ Top.todo = <<>>
    /\ stack' = Popped
    /\ finished' = IF Top.call # "" THEN finished \cup {Top.call} ELSE finished
    /\ UNCHANGED <<db, stores, iteration, lastExit, pc>>
    /\ UNCHANGED transVars /\ UNCHANGED unitVars

\* Loop: the first iteration starts
EnterLoop ==
    /\ AtStatement /\ Current.kind = "Loop"
    /\ stack' = Pushed(Pushed(Advanced, LoopFrame(Current.body)),
                       SeqFrame(<<Current.body>>, ""))
    /\ iteration' = <<>>
    /\ UNCHANGED <<db, stores, finished, lastExit, pc>>
    /\ UNCHANGED transVars /\ UNCHANGED unitVars

\* Loop: the body has ended without an Exit, the next iteration starts
LoopIterate ==
    /\ Running /\ Top.k = "loop"
    /\ stack' = Pushed(stack, SeqFrame(<<Top.body>>, ""))
    /\ iteration' = <<>>
    /\ UNCHANGED <<db, stores, finished, lastExit, pc>>
    /\ UNCHANGED transVars /\ UNCHANGED unitVars

\* Exit: the innermost loop ends if the condition holds
ExitLoop ==
    /\ AtStatement /\ Current.kind = "Exit"
    /\ LET fired == EvalCond(Current.cond, <<>>, db)
       IN /\ stack' = IF fired THEN SubSeq(stack, 1, InnermostLoop - 1) ELSE Advanced
          /\ lastExit' = IF fired THEN Current.cond ELSE lastExit
          /\ iteration' = Recorded([kind |-> "Exit", inParallel |-> FALSE, fired |-> fired])
    /\ UNCHANGED <<db, stores, finished, pc>>
    /\ UNCHANGED transVars /\ UNCHANGED unitVars

\* a statement without nested statements
RunStatement ==
    /\ AtStatement /\ Current.kind \in LeafKinds
    /\ LET st == ExecStatement(Current, [db |-> db, stores |-> stores])
       IN db' = st.db /\ stores' = st.stores
    /\ stack' = Advanced
    /\ iteration' = Recorded(Ran(Current, db))
    /\ UNCHANGED <<finished, lastExit, pc>>
    /\ UNCHANGED transVars /\ UNCHANGED unitVars

\* Parallel: the children start
EnterParallel ==
    /\ AtStatement /\ Current.kind = "Parallel"
    /\ stack' = Pushed(Advanced,
            ParFrame([i \in DOMAIN Current.stmts |-> Leaves(Current.stmts[i])]))
    /\ iteration' = Recorded(Event("Parallel", FALSE))
    /\ UNCHANGED <<db, stores, finished, lastExit, pc>>
    /\ UNCHANGED transVars /\ UNCHANGED unitVars

\* Parallel: one of the children runs its next statement
ParallelStep ==
    /\ Running /\ Top.k = "par"
    /\ \E i \in DOMAIN Top.threads :
        /\ Top.threads[i] # <<>>
        /\ LET s == Head(Top.threads[i])
               st == ExecStatement(s, [db |-> db, stores |-> stores])
           IN /\ db' = st.db /\ stores' = st.stores
              /\ iteration' = Recorded(Event(s.kind, TRUE))
        /\ stack' = [stack EXCEPT ![Len(stack)].threads[i] = Tail(@)]
    /\ UNCHANGED <<finished, lastExit, pc>>
    /\ UNCHANGED transVars /\ UNCHANGED unitVars

\* Parallel: all children have ended
EndParallel ==
    /\ Running /\ Top.k = "par"
    /\ \A i \in DOMAIN Top.threads : Top.threads[i] = <<>>
    /\ stack' = Popped
    /\ UNCHANGED <<db, stores, finished, iteration, lastExit, pc>>
    /\ UNCHANGED transVars /\ UNCHANGED unitVars

\* the main statement has ended
Halt ==
    /\ pc.phase = "run" /\ stack = <<>>
    /\ pc' = Position("done", 0)
    /\ UNCHANGED runVars /\ UNCHANGED transVars /\ UNCHANGED unitVars

Next ==
    \/ RemoveADTs \/ ReturnEmpty
    \/ CreateRamRelation \/ TranslateSCC \/ TranslateMain
    \/ EnterSequence \/ CallSubroutine \/ EndSequence
    \/ EnterLoop \/ LoopIterate \/ ExitLoop
    \/ RunStatement \/ EnterParallel \/ ParallelStep \/ EndParallel
    \/ Halt

Spec == Init /\ [][Next]_vars

(***************************************************************************)
(* The clause translator on its own: a clause, the SCC it is translated    *)
(* in, a version, a translation mode and a configuration are drawn, and    *)
(* one of the entry points of the translator is applied.                   *)
(***************************************************************************)
VarW == Variable("w")

ClauseRelations ==
    [edge |-> Relation(2, "DEFAULT", <<>>, 0),
     path |-> Relation(2, "DEFAULT", <<>>, 0),
     flag |-> Relation(0, "DEFAULT", <<>>, 0),
     best |-> Relation(2, "DEFAULT", <<>>, 0),
     keyed |-> [Relation(2, "DEFAULT", <<>>, 0) EXCEPT
                    !.functionalDependencies = <<{"a1"}, {"a2"}, {"a1"}>>]]

\* the facts r(c1, ..., cn) over the values
FactClauses ==
    {Rule(Atom("edge", <<NumericConstant(a), NumericConstant(b)>>), <<>>) : a, b \in Vals}
    \cup {Rule(Atom("keyed", <<NumericConstant(a), NumericConstant(b)>>), <<>>) : a, b \in Vals}
    \cup {Rule(Atom("flag", <<>>), <<>>)}

\* the rules, each with the relations of the SCC it is recursive in
RuleClauses ==
    { [clause |-> Rule(Atom("path", <<VarX, VarZ>>),
                       <<Atom("edge", <<VarX, VarY>>), Atom("path", <<VarY, VarZ>>)>>),
       scc |-> <<"path">>],
      [clause |-> Rule(Atom("path", <<VarX, VarZ>>),
                       <<Atom("path", <<VarX, VarY>>), Atom("path", <<VarY, VarZ>>)>>),
       scc |-> <<"path">>],
      [clause |-> Rule(Atom("path", <<VarX, VarZ>>),
                       <<Atom("path", <<VarX, VarY>>), Atom("path", <<VarY, VarZ>>),
                         Atom("flag", <<>>)>>),
       scc |-> <<"flag", "path">>],
      [clause |-> Rule(Atom("path", <<VarX, VarW>>),
                       <<Atom("path", <<VarX, VarY>>), Atom("path", <<VarY, VarZ>>),
                         Atom("path", <<VarZ, VarW>>)>>),
       scc |-> <<"path">>],
      [clause |-> Rule(Atom("flag", <<>>),
                       <<Atom("path", <<VarX, VarX>>), Negation(Atom("edge", <<VarX, VarX>>))>>),
       scc |-> <<"flag", "path">>],
      [clause |-> Rule(Atom("path", <<VarX, VarZ>>),
                       <<Atom("edge", <<VarX, VarY>>),
                         BinaryConstraint("=", VarY, NumericConstant(1)),
                         Atom("path", <<VarY, VarZ>>)>>),
       scc |-> <<"path">>],
      [clause |-> Rule(Atom("keyed", <<VarX, VarY>>),
                       <<Atom("edge", <<VarX, VarY>>)>>),
       scc |-> <<>>],
      [clause |-> Rule(Atom("keyed", <<VarX, VarZ>>),
                       <<Atom("keyed", <<VarX, VarY>>), Atom("edge", <<VarY, VarZ>>)>>),
       scc |-> <<"keyed">>],
      [clause |-> Rule(Atom("path", <<VarX, VarY>>),
                       <<Atom("edge", <<VarX, VarY>>),
                         Atom("path", <<UnnamedVariable, UnnamedVariable>>)>>),
       scc |-> <<"path">>] }

\* best(x,y) <= best(x,z) :- y <= z.   best(x,y) <= best(z,w) :- x = z, y <= w.
SubsumptiveClauses ==
    { Clause(Atom("best", <<VarX, VarY>>),
             <<Atom("best", <<VarX, VarY>>), Atom("best", <<VarX, VarZ>>),
               BinaryConstraint("<=", VarY, VarZ)>>, NoPlan, TRUE),
      Clause(Atom("best", <<VarX, VarY>>),
             <<Atom("best", <<VarX, VarY>>), Atom("best", <<VarZ, VarW>>),
               BinaryConstraint("=", VarX, VarZ),
               BinaryConstraint("<=", VarY, VarW)>>, NoPlan, TRUE) }

SubsumptiveModes ==
    {"SubsumeRejectNewNew", "SubsumeRejectNewCurrent",
     "SubsumeDeleteCurrentDelta", "SubsumeDeleteCurrentCurrent"}

\* the orders of the atoms 1..n
AtomOrders(n) ==
    {f \in [1..n -> 1..n] : \A i, j \in 1..n : i # j => f[i] # f[j]}

\* the execution plans of a clause: none, or an order for one version (a
\* plan for a version the clause does not have is caught by the assertion of
\* createRecursiveClauseVersions)
ExecutionPlans(clause, versions) ==
    {NoPlan} \cup {(v :> f) : v \in versions, f \in AtomOrders(Len(BodyAtoms(clause)))}

\* the scheduler's statistics: the sizes of edge and of the other relations
Statistics ==
    {[relSize |-> [r \in DOMAIN ClauseRelations |-> IF r = "edge" THEN a ELSE b],
      uniqueKeys |-> [r \in DOMAIN ClauseRelations |-> u]] :
        a \in Vals, b \in Vals, u \in {1, 2}}

Schedulers ==
    {[autoSchedule |-> FALSE, stats |-> NoStats]}
    \cup {[autoSchedule |-> TRUE, stats |-> st] : st \in Statistics}

ClauseInput(clause, scc, version, mode, scheduler, profile) ==
    [clause |-> clause, scc |-> scc, version |-> version, mode |-> mode,
     autoSchedule |-> scheduler.autoSchedule, stats |-> scheduler.stats,
     profile |-> profile]

\* the versions of a clause in an SCC
Versions(clause, scc) == 0..(Len(SccAtomsOf(clause, scc)) - 1)

ClauseInputs ==
    {ClauseInput(c, <<>>, 0, "DEFAULT", sch, FALSE) :
        c \in FactClauses, sch \in {s \in Schedulers : s.stats \in {NoStats}}}
    \cup UNION {
        {ClauseInput([r.clause EXCEPT !.plan = pl], r.scc, v, "DEFAULT", sch, pr) :
            pl \in ExecutionPlans(r.clause, 0..Len(SccAtomsOf(r.clause, r.scc))),
            v \in Versions(r.clause, r.scc) \cup {0},
            sch \in Schedulers, pr \in BOOLEAN} : r \in RuleClauses}
    \cup {ClauseInput(c, scc, 0, m, sch, FALSE) :
            c \in SubsumptiveClauses, scc \in {<<>>, <<"best">>},
            m \in SubsumptiveModes, sch \in {s \in Schedulers : s.stats \in {NoStats}}}

\* the context of a translation of the drawn clause
InputCtx(in, sccAtoms, version) ==
    [sccAtoms |-> sccAtoms, version |-> version, mode |-> in.mode,
     autoSchedule |-> in.autoSchedule, profile |-> in.profile,
     stats |-> in.stats, relations |-> ClauseRelations]

\* the configuration of the drawn input
InputConfig(in) ==
    [profile |-> in.profile, autoSchedule |-> in.autoSchedule, stats |-> in.stats]

\* the program made of the drawn clause, with one recursive component
ClauseProgram(in) ==
    [relations |-> ClauseRelations,
     clauses |-> <<in.clause>>,
     sccGraph |-> <<SccNode(in.scc, TRUE, <<>>, <<>>)>>,
     sccOrdering |-> <<1>>,
     expired |-> << <<>> >>]

\* the positions of the atoms of a clause: 0 is the head
AtomPositions(clause) == {0} \cup Range(BodyAtoms(clause))

Returned(op, result) == [op |-> op, result |-> result]

InitClause ==
    /\ input \in ClauseInputs
    /\ output = <<>>
    /\ pc = Position("input", 0)
    /\ program = ClauseProgram(input)
    /\ config = InputConfig(input)
    /\ facts = {}
    /\ ramRelations = <<>>
    /\ ramSubroutines = <<>>
    /\ ramMain = NoStatement
    /\ failed = ""
    /\ db = <<>>
    /\ stores = {}
    /\ stack = <<>>
    /\ finished = {}
    /\ iteration = <<>>
    /\ lastExit = NoCondition
    /\ isProvenance = NotInitialized

\* the variables an entry point of the clause translator leaves alone
clauseFrame == <<config, facts, input, isProvenance, ramRelations, ramSubroutines, ramMain,
                 db, stores, stack, finished, iteration, lastExit>>

\* the program once the atoms of its clause have been ordered
Ordered(prog, ctx) ==
    [prog EXCEPT !.clauses[1] = afterAtomOrdering(@, ctx)]

\* ClauseTranslator::translateNonRecursiveClause on a fresh translator
TranslateNonRecursiveClause ==
    /\ pc = Position("input", 0)
    /\ input.version = 0
    /\ output' = Returned("translateNonRecursiveClause",
                    translateNonRecursiveClause(input.clause, InputCtx(input, <<>>, 0)))
    /\ program' = IF isFact(input.clause) THEN program
                  ELSE Ordered(program, InputCtx(input, <<>>, 0))
    /\ pc' = Position("output", 0)
    /\ UNCHANGED <<clauseFrame, failed>>

\* ClauseTranslator::translateRecursiveClause for the drawn version
TranslateRecursiveClause ==
    /\ pc = Position("input", 0)
    /\ input.scc # <<>>
    /\ output' = Returned("translateRecursiveClause",
                    translateRecursiveClause(input.clause, input.scc, input.version,
                                             InputCtx(input, <<>>, 0)))
    /\ program' = Ordered(program, InputCtx(input, <<>>, 0))
    /\ pc' = Position("output", 0)
    /\ UNCHANGED <<clauseFrame, failed>>

\* ClauseTranslator::getAtomOrdering in the version configuration
GetAtomOrdering ==
    /\ pc = Position("input", 0)
    /\ isRule(input.clause)
    /\ output' = Returned("getAtomOrdering",
                    getAtomOrdering(input.clause,
                        InputCtx(input, SccAtomsOf(input.clause, input.scc), input.version)))
    /\ program' = Ordered(program, InputCtx(input, <<>>, 0))
    /\ pc' = Position("output", 0)
    /\ UNCHANGED <<clauseFrame, failed>>

\* ClauseTranslator::getClauseAtomName for every atom of the clause
GetClauseAtomName ==
    /\ pc = Position("input", 0)
    /\ output' = Returned("getClauseAtomName",
                    [p \in AtomPositions(input.clause) |->
                        getClauseAtomName(input.clause, p,
                            InputCtx(input, SccAtomsOf(input.clause, input.scc),
                                     input.version))])
    /\ pc' = Position("output", 0)
    /\ UNCHANGED <<clauseFrame, failed, program>>

\* AstToRamTranslator::createRecursiveClauseVersions for the relation of the
\* head (the atoms are ordered on the clone r1 of the clause); the assertion
\* on the planned versions ends the translation
CreateRecursiveClauseVersions ==
    /\ pc = Position("input", 0)
    /\ input.scc # <<>>
    /\ ~input.clause.subsumptive
    /\ input.version = 0
    /\ input.clause.head.name \in Range(input.scc)
    /\ IF hasAllPlannedVersions(input.clause, input.scc)
       THEN /\ output' = Returned("createRecursiveClauseVersions",
                            createRecursiveClauseVersions(program, config, input.scc,
                                                          input.clause.head.name))
            /\ UNCHANGED failed
       ELSE /\ output' = Returned("createRecursiveClauseVersions", <<>>)
            /\ failed' = "missing clause versions"
    /\ pc' = Position("output", 0)
    /\ UNCHANGED <<clauseFrame, program>>

NextClause ==
    \/ TranslateNonRecursiveClause
    \/ TranslateRecursiveClause
    \/ GetAtomOrdering
    \/ GetClauseAtomName
    \/ CreateRecursiveClauseVersions

SpecClause == InitClause /\ [][NextClause]_vars

(***************************************************************************)
(* The erasure of the sum types on its own: a program with an argument at  *)
(* some place of a clause is drawn and removeADTs is applied.              *)
(***************************************************************************)
\* the arguments drawn: variables, constants, constructors of an enum and of
\* a sum type with fields, nested in constructors, records, functors and
\* aggregators
AdtLeaves ==
    {VarX, NumericConstant(1), BranchInit("Red", <<>>), BranchInit("Empty", <<>>)}

Nested(t) ==
    {BranchInit("Circle", <<t>>),
     BranchInit("Rect", <<t, VarY>>),
     RecordInit(<<VarY, t>>),
     IntrinsicFunctor("-", <<t>>),
     Aggregator(t, <<Atom("edge", <<VarY, VarY>>)>>),
     Aggregator(VarY, <<Atom("edge", <<VarY, t>>)>>)}

RECURSIVE AdtTerms(_)
AdtTerms(d) ==
    IF d = 0 THEN AdtLeaves
    ELSE AdtTerms(d - 1) \cup UNION {Nested(t) : t \in AdtTerms(d - 1)}

\* the clauses with an argument in the head, in an atom, in a negated atom
\* or in a constraint of the body
AdtClauses(t) ==
    {Rule(Atom("p", <<t>>), <<Atom("q", <<VarX>>)>>),
     Rule(Atom("p", <<VarX>>), <<Atom("q", <<VarX>>), Atom("q", <<t>>)>>),
     Rule(Atom("p", <<VarX>>), <<Atom("q", <<VarX>>), Negation(Atom("q", <<t>>))>>),
     Rule(Atom("p", <<VarX>>), <<Atom("q", <<VarX>>), BinaryConstraint("=", VarX, t)>>)}

AdtPrograms ==
    {[clauses |-> <<c>>] : c \in UNION {AdtClauses(t) : t \in AdtTerms(MaxDepth)}}
    \cup {[clauses |-> <<c, d>>] :
            c \in AdtClauses(BranchInit("Circle", <<BranchInit("Red", <<>>)>>)),
            d \in AdtClauses(VarY)}
    \cup {[clauses |-> <<c>>] :
            c \in AdtClauses(BranchInit("Node",
                        <<BranchInit("Leaf", <<>>), BranchInit("Red", <<>>)>>))}

InitADT ==
    /\ input \in AdtPrograms
    /\ program = input
    /\ output = <<>>
    /\ pc = Position("input", 0)
    /\ config = <<>>
    /\ facts = {}
    /\ ramRelations = <<>>
    /\ ramSubroutines = <<>>
    /\ ramMain = NoStatement
    /\ failed = ""
    /\ db = <<>>
    /\ stores = {}
    /\ stack = <<>>
    /\ finished = {}
    /\ iteration = <<>>
    /\ lastExit = NoCondition
    /\ isProvenance = NotInitialized

\* removeADTs on the drawn program: the program is rewritten in place
EraseADTs ==
    /\ pc = Position("input", 0)
    /\ program' = removeADTs(program).program
    /\ output' = Returned("removeADTs", removeADTs(program).changed)
    /\ pc' = Position("output", 0)
    /\ UNCHANGED <<config, facts, input, isProvenance, transVars, runVars>>

NextADT == EraseADTs

SpecADT == InitADT /\ [][NextADT]_vars

(***************************************************************************)
(* Properties of the translated program and of its run.                    *)
(***************************************************************************)
\* the declarations of a relation and of its @delta_ and @new_ variants
DeclaredFor(name) ==
    {i \in DOMAIN ramRelations :
        ramRelations[i].name \in {getConcreteRelationName(name),
                                  getDeltaRelationName(name), getNewRelationName(name)}}

Signature(ramRelation) == [ramRelation EXCEPT !.name = ""]

SignatureOf(name) ==
    LET rel == program.relations[name]
    IN RamRelation("", rel.arity, rel.auxArity, rel.attributes, rel.attributeTypes,
                   rel.representation)

\* C1: once translateProgram has created the RAM relations, a relation R of a
\* recursive SCC is declared as exactly R, @delta_R and @new_R, the three
\* with the arity, auxiliary arity, attribute names, type qualifiers and
\* representation of R; a relation of a non-recursive SCC is declared as R
\* only; nothing else is declared and no name is declared twice.
C1_Declarations ==
    pc.phase \notin {"removeADTs", "createRamRelation"} =>
        /\ failed = ""
        /\ Cardinality(RelationNames(ramRelations)) = Len(ramRelations)
        /\ \A s \in DOMAIN program.sccGraph :
            \A k \in DOMAIN program.sccGraph[s].relations :
                LET name == program.sccGraph[s].relations[k]
                    names == {ramRelations[i].name : i \in DeclaredFor(name)}
                IN /\ names = IF program.sccGraph[s].recursive
                              THEN {name, "@delta_" \o name, "@new_" \o name}
                              ELSE {name}
                   /\ \A i \in DeclaredFor(name) :
                        Signature(ramRelations[i]) = SignatureOf(name)
        /\ \A i \in DOMAIN ramRelations :
            \E name \in DOMAIN program.relations : i \in DeclaredFor(name)

\* the relations are created for a program with a recursive SCC of two
\* relations and a non-recursive SCC
C1_Witness ==
    /\ pc.phase = "translateSCC"
    /\ Len(ramRelations) = 7
    /\ \E s \in DOMAIN program.sccGraph :
        program.sccGraph[s].recursive /\ Len(program.sccGraph[s].relations) = 2
    /\ \E s \in DOMAIN program.sccGraph : ~program.sccGraph[s].recursive

\* the relations of the i-th stratum (i counts from 1)
StratumNode(i) == program.sccGraph[program.sccOrdering[i]]

\* C2: when the subroutine of a recursive stratum has returned, @delta_R and
\* @new_R are empty for every relation R of its SCC, whether the loop was
\* ended by the emptiness Exit or by a limit-size Exit or was not emitted.
C2_TemporariesCleared ==
    \A i \in DOMAIN program.sccOrdering :
        (stratumID(i - 1) \in finished /\ StratumNode(i).recursive) =>
            \A k \in DOMAIN StratumNode(i).relations :
                /\ db[getDeltaRelationName(StratumNode(i).relations[k])] = {}
                /\ db[getNewRelationName(StratumNode(i).relations[k])] = {}

\* a recursive stratum has returned after its loop was ended by the
\* limit-size Exit, with tuples derived for its relation
C2_Witness ==
    /\ \E i \in DOMAIN program.sccOrdering :
        /\ stratumID(i - 1) \in finished
        /\ StratumNode(i).recursive
        /\ \E k \in DOMAIN StratumNode(i).relations :
            Cardinality(db[StratumNode(i).relations[k]]) >= 2
    /\ lastExit.kind = "Constraint"

\* the phase of an event of a loop iteration: 1 rule bodies, 2 exit
\* conditions, 3 update
Phase(ev) ==
    IF ev.kind = "Parallel" \/ ev.inParallel THEN 1
    ELSE IF ev.kind = "Exit" THEN 2
    ELSE 3

\* the stratum whose subroutine is running
RunningStratum ==
    CHOOSE i \in DOMAIN program.sccOrdering :
        \E f \in DOMAIN stack : stack[f].k = "seq" /\ stack[f].call = stratumID(i - 1)

\* the number of rule bodies of the loop of a stratum: one per version of
\* each recursive clause
RuleBodies(i) ==
    LET scc == StratumNode(i).relations
        cls == {c \in DOMAIN program.clauses :
                    /\ program.clauses[c].head.name \in Range(scc)
                    /\ recursive(program, program.clauses[c])}
        versions == UNION {{<<c, j>> : j \in {j \in DOMAIN BodyAtoms(program.clauses[c]) :
                        inScc(scc, AtomAt(program.clauses[c],
                                          BodyAtoms(program.clauses[c])[j]))}} : c \in cls}
    IN Cardinality(versions)

\* the number of Exit statements of the loop of a stratum
ExitConditions(i) ==
    1 + Cardinality({k \in DOMAIN StratumNode(i).relations :
            program.relations[StratumNode(i).relations[k]].limitsize > 0})

EventsOfPhase(ph) == {e \in DOMAIN iteration : Phase(iteration[e]) = ph}

\* C10: in an iteration of the loop of a recursive stratum the rule bodies
\* run first, then the Exit conditions, then the update: an Exit is
\* evaluated only after every rule body of the iteration has run, an Exit
\* that fires ends the iteration, and the update runs only after every Exit
\* of the iteration was evaluated and none fired.
C10_PhaseOrder ==
    (InLoop /\ iteration # <<>>) =>
        /\ iteration[1].kind = "Parallel"
        /\ \A e, f \in DOMAIN iteration :
            e < f => Phase(iteration[e]) <= Phase(iteration[f])
        /\ EventsOfPhase(2) # {} =>
            Cardinality(EventsOfPhase(1)) = 1 + RuleBodies(RunningStratum)
        /\ \A e \in EventsOfPhase(2) : iteration[e].fired => e = Len(iteration)
        /\ EventsOfPhase(3) # {} =>
            /\ Cardinality(EventsOfPhase(2)) = ExitConditions(RunningStratum)
            /\ \A e \in EventsOfPhase(2) : ~iteration[e].fired

\* an iteration of a stratum with two rule bodies has run the rule bodies,
\* evaluated the Exit conditions without one firing, and swapped @delta_
\* and @new_ in its update
C10_Witness ==
    /\ InLoop
    /\ Cardinality(EventsOfPhase(1)) >= 3
    /\ EventsOfPhase(2) # {}
    /\ \E e \in EventsOfPhase(3) : iteration[e].kind = "Swap"


(***************************************************************************)
(* Properties of the clause translator.                                    *)
(***************************************************************************)
\* the operations nested in an operation, outermost first
RECURSIVE OperationChain(_)
OperationChain(op) ==
    IF "inner" \in DOMAIN op THEN <<op>> \o OperationChain(op.inner) ELSE <<op>>

\* the conditions of the filters of an operation
FilterConditions(op) ==
    {o.cond : o \in {c \in Range(OperationChain(op)) : c.kind = "Filter"}}

\* the insertion an operation ends with
InsertionOf(op) == OperationChain(op)[Len(OperationChain(op))]

\* the relations the atoms of the body are read from: every atom brings the
\* filter "the relation is not empty" on the relation it is read from
IsSourceFilter(o) ==
    /\ o.kind = "Filter"
    /\ o.cond.kind = "Negation"
    /\ o.cond.arg.kind = "EmptinessCheck"

AtomSources(op) ==
    LET chain == OperationChain(op)
        ks == SeqOfSet({k \in DOMAIN chain : IsSourceFilter(chain[k])})
    IN [i \in DOMAIN ks |-> chain[ks[i]].cond.arg.rel]

CountIn(seq, x) == Cardinality({k \in DOMAIN seq : seq[k] = x})

SameBag(s, t) ==
    /\ Len(s) = Len(t)
    /\ \A x \in Range(s) \cup Range(t) : CountIn(s, x) = CountIn(t, x)

\* the relations the atoms are read from when the atom at position p is the
\* delta atom
ExpectedSources(clause, p) ==
    LET atoms == BodyAtoms(clause)
    IN [k \in DOMAIN atoms |->
            IF atoms[k] = p THEN "@delta_" \o AtomAt(clause, atoms[k]).name
            ELSE AtomAt(clause, atoms[k]).name]

\* the query of a translated rule, below its timer and debug information
QueryOf(stmt) ==
    IF stmt.kind = "Sequence" THEN Strip(stmt.stmts[1]) ELSE Strip(stmt)

Returns(op) == pc.phase = "output" /\ output.op = op

\* the rule of a version reads the delta of the SCC atom p and writes @new_
IsVersionOf(stmt, clause, p) ==
    /\ QueryOf(stmt).kind = "Query"
    /\ InsertionOf(QueryOf(stmt).operation).kind \in {"Insert", "GuardedInsert"}
    /\ InsertionOf(QueryOf(stmt).operation).rel = "@new_" \o clause.head.name
    /\ SameBag(AtomSources(QueryOf(stmt).operation), ExpectedSources(clause, p))

\* the version number a rule is logged with
LoggedVersion(stmt) ==
    IF stmt.kind = "Sequence" THEN stmt.stmts[1].stmt.message.version
    ELSE stmt.stmt.message.version

\* C3: createRecursiveClauseVersions emits one rule per body atom of the
\* SCC, m rules for m such atoms; the rules are numbered 0..m-1 in body
\* order, and the rule of version i reads the i-th SCC atom from its @delta_
\* relation and writes the @new_ relation of the head (this also holds for
\* the rule translateRecursiveClause emits for a version)
C3_OneRulePerSccAtom ==
    /\ (Returns("createRecursiveClauseVersions") /\ failed = "") =>
            /\ Len(output.result) = Len(SccAtomsOf(input.clause, input.scc))
            /\ \A i \in DOMAIN output.result :
                /\ IsVersionOf(output.result[i], input.clause,
                               SccAtomsOf(input.clause, input.scc)[i])
                /\ input.profile => LoggedVersion(output.result[i]) = i - 1
    /\ (Returns("translateRecursiveClause") /\ ~input.clause.subsumptive) =>
            /\ IsVersionOf(output.result, input.clause,
                           SccAtomsOf(input.clause, input.scc)[input.version + 1])
            /\ input.profile => LoggedVersion(output.result) = input.version

\* a clause with three atoms of the SCC gets three versions, logged when
\* profiling
C3_Witness ==
    /\ Returns("createRecursiveClauseVersions")
    /\ Len(output.result) = 3
    /\ input.profile
    /\ input.autoSchedule

\* the order an explicit plan imposes for a version
PlannedOrder(clause, version) ==
    [i \in DOMAIN clause.plan[version] |-> BodyAtoms(clause)[clause.plan[version][i]]]

HasPlanFor(clause, version) ==
    clause.plan # NoPlan /\ version \in DOMAIN clause.plan

\* C4: for a clause with an explicit plan for the version being translated,
\* getAtomOrdering returns the atoms in the order of the plan (its 1-based
\* indices decreased by one), whatever the configuration, auto-scheduling
\* included
C4_PlanHonoured ==
    (Returns("getAtomOrdering") /\ HasPlanFor(input.clause, input.version)) =>
        output.result = PlannedOrder(input.clause, input.version)

\* C4, without auto-scheduling: the plan of the version is the order returned
C4_PlanHonouredUnscheduled ==
    (Returns("getAtomOrdering") /\ HasPlanFor(input.clause, input.version)
        /\ (~input.autoSchedule \/ Len(BodyAtoms(input.clause)) <= 1)) =>
        output.result = PlannedOrder(input.clause, input.version)

\* with auto-scheduling and two atoms the planner's order is returned, not
\* the order of the plan
C4_Witness ==
    /\ Returns("getAtomOrdering")
    /\ HasPlanFor(input.clause, input.version)
    /\ input.autoSchedule
    /\ Len(BodyAtoms(input.clause)) = 2
    /\ output.result # PlannedOrder(input.clause, input.version)


\* the scan order of the version translateRecursiveClause translates
VersionOrder(in) ==
    getAtomOrdering(in.clause,
        InputCtx(in, SccAtomsOf(in.clause, in.scc), in.version))

\* the filter that keeps the tuples of an atom out of its @delta_ relation
NegatedDelta(clause, operators, p) ==
    RamNegation(ExistenceCheck("@delta_" \o AtomAt(clause, p).name,
        translateValues(clause, operators, AtomAt(clause, p).args)))

\* the SCC atoms after the delta atom of a version (version + 1 and later,
\* counted from 0)
LaterSccAtoms(in) ==
    {SccAtomsOf(in.clause, in.scc)[k] :
        k \in (in.version + 2)..Len(SccAtomsOf(in.clause, in.scc))}

\* the conditions that check a tuple against a relation
ExistenceChecks(conds) ==
    {c \in conds : c.kind = "Negation" /\ c.arg.kind = "ExistenceCheck"}

\* C6 (as stated): in every recursive clause translated for version v, every
\* SCC atom at position v+1 or later has a filter with a negated
\* ExistenceCheck of its lowered arguments against its @delta_ relation
C6_NegatedDeltaChecks ==
    Returns("translateRecursiveClause") =>
        \A p \in LaterSccAtoms(input) :
            NegatedDelta(input.clause, VersionOrder(input), p)
                \in FilterConditions(QueryOf(output.result).operation)

\* C6 (amended): in a recursive clause that is not subsumptive, translated
\* for version v, every SCC atom at position v+1 or later has a filter on its
\* @delta_ relation: a negated ExistenceCheck of its lowered arguments when
\* the atom has arguments, an EmptinessCheck when it is nullary; a
\* subsumptive clause gets no check against a @delta_ relation
C6_NegatedDeltaChecksByArity ==
    Returns("translateRecursiveClause") =>
        IF input.clause.subsumptive
        THEN ExistenceChecks(FilterConditions(QueryOf(output.result).operation)) = {}
        ELSE \A p \in LaterSccAtoms(input) :
                (IF Arity(AtomAt(input.clause, p)) = 0
                 THEN EmptinessCheck("@delta_" \o AtomAt(input.clause, p).name)
                 ELSE NegatedDelta(input.clause, VersionOrder(input), p))
                    \in FilterConditions(QueryOf(output.result).operation)

\* version 0 of a clause with a binary and a nullary SCC atom after the
\* delta atom
C6_Witness ==
    /\ Returns("translateRecursiveClause")
    /\ ~input.clause.subsumptive
    /\ input.version = 0
    /\ \E p, q \in LaterSccAtoms(input) :
            Arity(AtomAt(input.clause, p)) = 0 /\ Arity(AtomAt(input.clause, q)) = 2

\* the constants of the head of a fact, lowered
HeadConstants(clause) ==
    [i \in DOMAIN clause.head.args |-> SignedConstant(clause.head.args[i].val)]

HasFunctionalDependencies(clause) ==
    ClauseRelations[clause.head.name].functionalDependencies # <<>>

TranslatesFact == Returns("translateNonRecursiveClause") /\ isFact(input.clause)

\* C7 (as stated): every fact, whatever the arity of its head, translates
\* to a Query whose operation is the Insert of the lowered head constants
\* into the head relation, with no Scan, Filter or guard around it, except
\* for a GuardedInsert when the relation has functional dependencies
C7_FactIsBareInsert ==
    TranslatesFact =>
        /\ output.result.kind = "Query"
        /\ output.result.operation.kind =
                (IF HasFunctionalDependencies(input.clause) THEN "GuardedInsert" ELSE "Insert")
        /\ output.result.operation.rel = input.clause.head.name
        /\ output.result.operation.values = HeadConstants(input.clause)

\* C7 (amended): a fact with a head of arity one or more translates to a
\* Query whose operation is the Insert of the lowered head constants into
\* the head relation (a GuardedInsert when the relation has functional
\* dependencies); a fact with a nullary head translates to that Insert under
\* one Filter, the EmptinessCheck of the head relation
C7_FactInsertByArity ==
    TranslatesFact =>
        /\ output.result.kind = "Query"
        /\ IF Arity(input.clause.head) = 0
           THEN output.result.operation =
                    Filter(EmptinessCheck(input.clause.head.name),
                           Insert(input.clause.head.name, <<>>))
           ELSE /\ output.result.operation.kind =
                        (IF HasFunctionalDependencies(input.clause)
                         THEN "GuardedInsert" ELSE "Insert")
                /\ output.result.operation.rel = input.clause.head.name
                /\ output.result.operation.values = HeadConstants(input.clause)

\* a fact of a relation with a functional dependency is translated
C7_Witness ==
    /\ TranslatesFact
    /\ HasFunctionalDependencies(input.clause)
    /\ output.result.operation.kind = "GuardedInsert"

\* C8: for a subsumptive clause getClauseAtomName names the head H, the
\* dominated atom D (body literal 0) and the dominating atom G (body literal
\* 1) as the table of the modes says
C8_ModeTable ==
    (Returns("getClauseAtomName") /\ input.clause.subsumptive) =>
        LET H == output.result[0]
            D == output.result[1]
            G == output.result[2]
            R == input.clause.head.name
        IN CASE input.mode = "SubsumeRejectNewNew" ->
                    H = "@reject_" \o R /\ D = "@new_" \o R /\ G = "@new_" \o R
             [] input.mode = "SubsumeRejectNewCurrent" ->
                    H = "@reject_" \o R /\ D = "@new_" \o R /\ G = R
             [] input.mode = "SubsumeDeleteCurrentDelta" ->
                    H = "@delete_" \o R /\ D = R /\ G = "@delta_" \o R
             [] input.mode = "SubsumeDeleteCurrentCurrent" ->
                    H = "@delete_" \o R /\ D = R /\ G = R

\* the atoms of a subsumptive clause are named in the mode
\* SubsumeDeleteCurrentDelta, in the recursive configuration
C8_Witness ==
    /\ Returns("getClauseAtomName")
    /\ input.clause.subsumptive
    /\ input.mode = "SubsumeDeleteCurrentDelta"
    /\ input.scc # <<>>
    /\ output.result[2] = "@delta_best"

\* a condition over the tuple elements only
RECURSIVE RelationFree(_)
RelationFree(c) ==
    CASE c.kind = "Constraint" -> TRUE
      [] c.kind = "Negation" -> RelationFree(c.arg)
      [] c.kind = "Conjunction" -> RelationFree(c.lhs) /\ RelationFree(c.rhs)
      [] OTHER -> FALSE

\* the bindings of the two scan levels of a subsumptive clause
Bindings == {(0 :> t0) @@ (1 :> t1) : t0, t1 \in Vals \X Vals}

\* a condition that holds for exactly the bindings in which the lowered
\* arguments of the dominated atom (body literal 0) differ from those of the
\* dominating atom (body literal 1)
IsDistinctness(c, clause, operators) ==
    /\ RelationFree(c)
    /\ \A env \in Bindings :
            EvalCond(c, env, <<>>) =
                (EvalValues(translateValues(clause, operators, clause.body[1].args), env, <<>>)
                 # EvalValues(translateValues(clause, operators, clause.body[2].args), env, <<>>))

TranslatesSubsumptive ==
    /\ Returns("translateNonRecursiveClause") \/ Returns("translateRecursiveClause")
    /\ input.clause.subsumptive

\* C9: a subsumptive clause gets a distinctness filter, rejecting every
\* binding in which the lowered arguments of the dominated atom equal those
\* of the dominating atom, in the modes SubsumeRejectNewNew and
\* SubsumeDeleteCurrentCurrent and in no other mode
C9_DistinctnessFilter ==
    TranslatesSubsumptive =>
        ((\E c \in FilterConditions(QueryOf(output.result).operation) :
                IsDistinctness(c, input.clause, BodyAtoms(input.clause)))
         <=> input.mode \in {"SubsumeRejectNewNew", "SubsumeDeleteCurrentCurrent"})

\* a subsumptive clause whose atoms differ in both arguments is translated
\* with its distinctness filter
C9_Witness ==
    /\ TranslatesSubsumptive
    /\ input.mode = "SubsumeDeleteCurrentCurrent"
    /\ input.clause.body[2].args = <<VarZ, VarW>>
    /\ \E c \in FilterConditions(QueryOf(output.result).operation) :
            c.kind = "Negation" /\ c.arg.kind = "Conjunction"


\* the constructors of sum types in a node, at any depth
RECURSIVE BranchInits(_)
BranchInitsIn(nodes) == UNION {BranchInits(nodes[i]) : i \in DOMAIN nodes}
BranchInits(node) ==
    (IF "kind" \in DOMAIN node /\ node.kind = "BranchInit" THEN {node} ELSE {})
    \cup UNION {IF f \in {"args", "body", "clauses"} THEN BranchInitsIn(node[f])
                ELSE IF f \in {"head", "atom", "lhs", "rhs", "target"}
                THEN BranchInits(node[f])
                ELSE {} : f \in DOMAIN node}

\* C5: after removeADTs no BranchInit is left in the program, whether it was
\* nested in constructors, records, functor arguments or aggregator bodies,
\* and removeADTs returns true exactly when the program had a constructor
C5_NoBranchInitLeft ==
    Returns("removeADTs") =>
        /\ BranchInits(program) = {}
        /\ output.result = (BranchInits(input) # {})

\* a constructor nested in a constructor in the body of an aggregator has
\* been rewritten
C5_Witness ==
    /\ Returns("removeADTs")
    /\ output.result
    /\ \E c \in Range(input.clauses) : \E l \in Range(c.body) :
            /\ l.kind = "BinaryConstraint"
            /\ l.rhs.kind = "Aggregator"
            /\ \E b \in BranchInits(l.rhs.body[1]) : BranchInitsIn(b.args) # {}


(***************************************************************************)
(* The statements of a stratum.                                            *)
(***************************************************************************)
\* the statements without nested statements of a statement, in program order
RECURSIVE StatementsOf(_)
StatementsOf(s) ==
    IF s.kind \in Wrappers THEN StatementsOf(s.stmt)
    ELSE IF s.kind \in {"Sequence", "Parallel"}
    THEN FlattenSeqs([i \in DOMAIN s.stmts |-> StatementsOf(s.stmts[i])])
    ELSE IF s.kind = "Loop" THEN StatementsOf(s.body)
    ELSE <<s>>

\* the conjuncts of a condition, left to right
RECURSIVE Conjuncts(_)
Conjuncts(c) ==
    IF c.kind = "Conjunction" THEN Conjuncts(c.lhs) \o Conjuncts(c.rhs) ELSE <<c>>

Translated(i) == stratumID(i - 1) \in DOMAIN ramSubroutines
IsExit(s) == s.kind = "Exit"
\* the Exit statements of the subroutine of a stratum
ExitsOf(i) == SelectSeq(StatementsOf(ramSubroutines[stratumID(i - 1)]), IsExit)
\* the relations of a stratum that have a limitsize directive, in order
IsLimited(name) == program.relations[name].limitsize > 0
LimitedRelations(i) == SelectSeq(StratumNode(i).relations, IsLimited)
LimitExit(name) ==
    [kind |-> "Exit",
     cond |-> [kind |-> "Constraint", cop |-> "GE",
               lhs |-> [kind |-> "RelationSize", rel |-> name],
               rhs |-> [kind |-> "SignedConstant",
                        val |-> program.relations[name].limitsize]]]
\* a step that leaves the loop of the running stratum
LeavesLoop == InLoop /\ ~InLoop'
\* the step translateProgram returns with: the run of the main statement
\* starts
StartsRun == pc.phase # "run" /\ pc'.phase = "run"
\* the run has not made a step: the stack holds the main statement
AtStart == pc.phase = "run" /\ stack = <<SeqFrame(<<ramMain>>, "")>>
\* the states of the translation with the state it returns in, and the
\* state the run ends in
Translating == pc.phase # "run" \/ AtStart
\* a step of the run changes neither the program nor its translation
RunKeepsTranslation ==
    pc.phase = "run" =>
        UNCHANGED <<program, config, ramRelations, ramSubroutines, ramMain, failed>>
\* the Exit statements of the subroutines translated so far are the ones of
\* their strata
ExitStatements ==
    \A i \in DOMAIN program.sccOrdering : Translated(i) =>
        IF StratumNode(i).recursive /\ RuleBodies(i) > 0
        THEN /\ Len(ExitsOf(i)) = 1 + Len(LimitedRelations(i))
             /\ Conjuncts(ExitsOf(i)[1].cond) =
                    [k \in DOMAIN StratumNode(i).relations |->
                        [kind |-> "EmptinessCheck",
                         rel |-> "@new_" \o StratumNode(i).relations[k]]]
             /\ \A k \in DOMAIN LimitedRelations(i) :
                    ExitsOf(i)[k + 1] = LimitExit(LimitedRelations(i)[k])
        ELSE ExitsOf(i) = <<>>

\* C11: the Exit statements of the loop of a recursive stratum are one Exit
\* on the conjunction of EmptinessCheck(@new_R) over every relation R of the
\* component, followed by one Exit on RelationSize(R) >= limit for each
\* relation with a limitsize directive, and nothing else; a stratum without
\* a loop has no Exit.  The loop is left only in a state where every @new_R
\* is empty or a limited relation has reached its limit.  The statements are
\* as said in every state of the translation, in the state the run starts
\* in and in the state it ends in, and no step of the run changes them.
C11_ExitConditions ==
    /\ [](Translating => ExitStatements)
    /\ [][(StartsRun => AtStart') /\ RunKeepsTranslation]_vars
    /\ [][LeavesLoop =>
            \/ \A r \in Range(StratumNode(RunningStratum).relations) :
                    db["@new_" \o r] = {}
            \/ \E r \in Range(StratumNode(RunningStratum).relations) :
                    /\ IsLimited(r)
                    /\ Cardinality(db[r]) >= program.relations[r].limitsize]_vars

\* the subroutine of a stratum of two relations, whose loop has the
\* emptiness Exit alone, has returned with tuples derived, its loop left on
\* the emptiness Exit
C11_Witness ==
    /\ ~InLoop
    /\ lastExit.kind = "Conjunction"
    /\ \E i \in DOMAIN program.sccOrdering :
        /\ Translated(i)
        /\ Len(StratumNode(i).relations) = 2
        /\ Len(ExitsOf(i)) = 1
        /\ stratumID(i - 1) \in finished
        /\ \E r \in Range(StratumNode(i).relations) : Cardinality(db[r]) >= 2


\* the relation of the running stratum with the given @new_ relation
UpdatedRelation(newName) ==
    CHOOSE r \in Range(StratumNode(RunningStratum).relations) : "@new_" \o r = newName
\* the first statement of the update that ends with the e-th event: the
\* Extend of an equivalence relation, the copy otherwise
UpdateStart(e) == IF e > 3 /\ iteration[e - 3].kind = "Extend" THEN e - 3 ELSE e - 2
\* the database after the e-th event of the iteration
After(e) == IF e < Len(iteration) THEN iteration[e + 1].before ELSE db
IsUpdateEnd(e) == iteration[e].kind = "Clear" /\ ~iteration[e].inParallel

\* C12: the update of a relation R in an iteration of the loop, run on
\* R = r, @delta_R = d and @new_R = n, leaves R = r \cup n, @delta_R = n and
\* @new_R empty: it copies @new_R into R, swaps @delta_R and @new_R and
\* clears @new_R.
C12_UpdatePhase ==
    InLoop =>
        \A e \in DOMAIN iteration : IsUpdateEnd(e) =>
            /\ e >= 3
            /\ iteration[e - 2].kind = "Query"
            /\ iteration[e - 1].kind = "Swap"
            /\ LET R == UpdatedRelation(iteration[e].stmt.rel)
                   before == iteration[UpdateStart(e)].before
               IN /\ After(e)[R] = before[R] \cup before["@new_" \o R]
                  /\ After(e)["@delta_" \o R] = before["@new_" \o R]
                  /\ After(e)["@new_" \o R] = {}

\* the update of a relation has run on non-empty R, @delta_R and @new_R,
\* with @delta_R different from @new_R
C12_Witness ==
    /\ InLoop
    /\ \E e \in DOMAIN iteration :
        /\ IsUpdateEnd(e)
        /\ LET R == UpdatedRelation(iteration[e].stmt.rel)
               before == iteration[UpdateStart(e)].before
           IN /\ before[R] # {}
              /\ before["@new_" \o R] # {}
              /\ before["@delta_" \o R] # {}
              /\ before["@delta_" \o R] # before["@new_" \o R]


\* the statements of a statement outside its loop, in program order
RECURSIVE TopStatements(_)
TopStatements(s) ==
    IF s.kind \in Wrappers THEN TopStatements(s.stmt)
    ELSE IF s.kind \in {"Sequence", "Parallel"}
    THEN FlattenSeqs([i \in DOMAIN s.stmts |-> TopStatements(s.stmts[i])])
    ELSE <<s>>

IsEvaluation(s) == s.kind \in {"Query", "Extend"}
\* the preamble of a stratum: the queries and Extend statements outside its
\* loop
PreambleOf(i) == SelectSeq(TopStatements(ramSubroutines[stratumID(i - 1)]), IsEvaluation)
\* what a statement of the preamble does: the kind and the relation written
WrittenBy(s) ==
    IF s.kind = "Extend" THEN <<"Extend", s.target>>
    ELSE <<"Query", InsertionOf(s.operation).rel>>
\* the non-recursive clauses of a relation
NonRecursiveClauses(name) ==
    {c \in DOMAIN program.clauses :
        /\ program.clauses[c].head.name = name
        /\ ~recursive(program, program.clauses[c])}
\* the preamble expected for one relation
PreambleFor(name) ==
    [c \in 1..Cardinality(NonRecursiveClauses(name)) |-> <<"Query", name>>]
    \o (IF program.relations[name].representation = "EQREL"
        THEN <<<<"Extend", "@delta_" \o name>>>> ELSE <<>>)
    \o <<<<"Query", "@delta_" \o name>>>>
\* the copy of a relation into its delta relation
CopyToDelta(name) ==
    IF program.relations[name].arity = 0
    THEN [kind |-> "Query",
          operation |->
            [kind |-> "Filter",
             cond |-> [kind |-> "Negation",
                       arg |-> [kind |-> "EmptinessCheck", rel |-> name]],
             inner |-> [kind |-> "Project", rel |-> "@delta_" \o name, values |-> <<>>]]]
    ELSE [kind |-> "Query",
          operation |->
            [kind |-> "Scan", rel |-> name, level |-> 0,
             inner |-> [kind |-> "Project", rel |-> "@delta_" \o name,
                        values |-> [c \in 1..program.relations[name].arity |->
                            [kind |-> "TupleElement", level |-> 0, col |-> c - 1]]]]]
EntersLoop == ~InLoop /\ InLoop'
\* the preambles of the recursive strata translated so far are the ones of
\* their components
PreambleStatements ==
    \A i \in DOMAIN program.sccOrdering :
        (Translated(i) /\ StratumNode(i).recursive) =>
            /\ [k \in DOMAIN PreambleOf(i) |-> WrittenBy(PreambleOf(i)[k])] =
                    FlattenSeqs([k \in DOMAIN StratumNode(i).relations |->
                        PreambleFor(StratumNode(i).relations[k])])
            /\ \A r \in Range(StratumNode(i).relations) :
                \A k \in DOMAIN PreambleOf(i) :
                    /\ WrittenBy(PreambleOf(i)[k]) = <<"Query", "@delta_" \o r>> =>
                            PreambleOf(i)[k] = CopyToDelta(r)
                    /\ WrittenBy(PreambleOf(i)[k]) = <<"Extend", "@delta_" \o r>> =>
                            PreambleOf(i)[k].source = r

\* C13: the preamble of a recursive stratum has, for each relation R of the
\* component in turn, one query into R per non-recursive clause of R, then
\* the copy of R into @delta_R (for a nullary R the insertion of the empty
\* tuple under the filter "R is not empty"), preceded by Extend(@delta_R, R)
\* when R is an equivalence relation; when the loop is entered @delta_R = R
\* for every relation R of the component.  The preamble is as said in every
\* state of the translation, in the state the run starts in and in the state
\* it ends in, and no step of the run changes it.
C13_Preamble ==
    /\ [](Translating => PreambleStatements)
    /\ [][(StartsRun => AtStart') /\ RunKeepsTranslation]_vars
    /\ [][EntersLoop =>
            \A r \in Range(StratumNode(RunningStratum).relations) :
                db["@delta_" \o r] = db[r]]_vars

\* the loop of a stratum with a nullary relation has been entered with
\* every relation of the component non-empty and equal to its delta relation
C13_Witness ==
    /\ InLoop
    /\ iteration = <<>>
    /\ \E r \in Range(StratumNode(RunningStratum).relations) :
            program.relations[r].arity = 0
    /\ \A r \in Range(StratumNode(RunningStratum).relations) :
            db[r] # {} /\ db["@delta_" \o r] = db[r]


\* translateProgram has returned
ProgramTranslated == pc.phase \in {"run", "done"}
StratumNames(n) == {"stratum_" \o ToString(i) : i \in 0..(n - 1)}
Calls(n) == [i \in 1..n |-> [kind |-> "Call", name |-> "stratum_" \o ToString(i - 1)]]

\* the subroutines registered so far are those of the first strata of the
\* topological order, each once, and the main statement calls them in order
RegisteredSubroutines ==
    LET n == Len(program.sccOrdering)
    IN (getNumberOfSCCs(program) >= 1) =>
        /\ failed # "subroutine ID should not already exist"
        /\ pc.phase = "translateSCC" => DOMAIN ramSubroutines = StratumNames(pc.i - 1)
        /\ \A i \in 1..n : Translated(i) =>
                ramSubroutines["stratum_" \o ToString(i - 1)] =
                    translateSCC(program, config, program.sccOrdering[i], i - 1)
        /\ ProgramTranslated =>
            /\ failed = ""
            /\ DOMAIN ramSubroutines = StratumNames(n)
            /\ Cardinality(DOMAIN ramSubroutines) = n
            /\ ramMain =
                    IF config.profile
                    THEN [kind |-> "Sequence",
                          stmts |-> <<[kind |-> "LogTimer",
                                       stmt |-> [kind |-> "Sequence", stmts |-> Calls(n)]]>>]
                    ELSE [kind |-> "Sequence", stmts |-> Calls(n)]

\* C14: for a program of n >= 1 components translateProgram registers the
\* subroutines stratum_0 .. stratum_(n-1) and no other, stratum_i is the
\* code of the i-th component of the topological order, no subroutine name
\* is inserted twice, and the main statement is the Sequence of
\* Call(stratum_0) .. Call(stratum_(n-1)) in order, inside one LogTimer
\* exactly when profiling.  This holds in every state of the translation,
\* in the state the run starts in and in the state it ends in, and no step
\* of the run changes the subroutines or the main statement.
C14_Subroutines ==
    /\ [](Translating => RegisteredSubroutines)
    /\ [][(StartsRun => AtStart') /\ RunKeepsTranslation]_vars

\* a program whose topological order differs from the order of its SCC
\* graph has been translated with profiling into two subroutines whose
\* codes differ, and the main statement has run both
C14_Witness ==
    /\ ProgramTranslated
    /\ config.profile
    /\ Len(program.sccOrdering) = 2
    /\ ramSubroutines["stratum_0"] # ramSubroutines["stratum_1"]
    /\ program.sccOrdering # <<1, 2>>
    /\ "stratum_1" \in finished

\* C15: for a program whose SCC graph has no component translateProgram
\* returns the empty Sequence without failing, and leaves ramRelations and
\* ramSubroutines empty.
C15_EmptyProgram ==
    (getNumberOfSCCs(program) = 0 /\ ProgramTranslated) =>
        /\ failed = ""
        /\ ramMain = [kind |-> "Sequence", stmts |-> <<>>]
        /\ ramRelations = <<>>
        /\ ramSubroutines = <<>>

\* the empty Sequence of a program without components has been returned
\* and run, with profiling on
C15_Witness ==
    /\ getNumberOfSCCs(program) = 0
    /\ config.profile
    /\ pc.phase = "done"
    /\ ramMain.kind = "Sequence"


\* the branch id of a constructor: the number of the constructors of its
\* type that come before it in the lexicographic order
BranchId(ctor) ==
    Cardinality({b \in Range(unsafeGetType(ctor)) : NameLess(b.name, ctor)})
IsEnum(ctor) == \A b \in Range(unsafeGetType(ctor)) : b.arity = 0
Tag(ctor) == [kind |-> "NumericConstant", val |-> BranchId(ctor)]
Record(as) == [kind |-> "RecordInit", args |-> as]

\* a node with every constructor replaced by its constant or record
RECURSIVE Erased(_)
ErasedAll(nodes) == [i \in DOMAIN nodes |-> Erased(nodes[i])]
Erased(node) ==
    CASE node.kind = "BranchInit" ->
            IF IsEnum(node.ctor) THEN Tag(node.ctor)
            ELSE IF Len(node.args) = 1
            THEN Record(<<Tag(node.ctor), Erased(node.args[1])>>)
            ELSE Record(<<Tag(node.ctor), Record(ErasedAll(node.args))>>)
      [] node.kind \in {"RecordInit", "IntrinsicFunctor", "Atom"} ->
            [node EXCEPT !.args = ErasedAll(node.args)]
      [] node.kind = "Negation" -> [node EXCEPT !.atom = Erased(node.atom)]
      [] node.kind = "BinaryConstraint" ->
            [node EXCEPT !.lhs = Erased(node.lhs), !.rhs = Erased(node.rhs)]
      [] node.kind = "Aggregator" ->
            [node EXCEPT !.target = Erased(node.target), !.body = ErasedAll(node.body)]
      [] OTHER -> node

\* C16: removeADTs replaces every BranchInit(c, args) by the signed constant
\* of the branch id of c when the type of c is an enumeration, by the record
\* [branch id, arg] when c has one argument and by the record
\* [branch id, [args...]] otherwise, the branch id being the 0-based
\* position of c among the constructors of its type in lexicographic order.
C16_BranchErasure ==
    Returns("removeADTs") =>
        /\ DOMAIN program.clauses = DOMAIN input.clauses
        /\ \A c \in DOMAIN input.clauses :
            /\ program.clauses[c].head = Erased(input.clauses[c].head)
            /\ program.clauses[c].body = ErasedAll(input.clauses[c].body)

\* Node(Leaf, Red) in the head of a clause has become [1, [[0, []], 2]]
C16_Witness ==
    /\ Returns("removeADTs")
    /\ input.clauses[1].head.args[1] =
            BranchInit("Node", <<BranchInit("Leaf", <<>>), BranchInit("Red", <<>>)>>)
    /\ program.clauses[1].head.args[1] =
            Record(<<[kind |-> "NumericConstant", val |-> 1],
                     Record(<<Record(<<[kind |-> "NumericConstant", val |-> 0],
                                       Record(<<>>)>>),
                              [kind |-> "NumericConstant", val |-> 2]>>)>>)


IsLoadDirective(d) == d.type = "input"
IsStoreDirective(d) == d.type \in {"output", "printsize"}
\* the IO statements of a relation: one per directive of the relation among
\* ds, in order, and one with the empty directive if there is none
IoOf(name, ds) ==
    IF ds = <<>> THEN <<<<"IO", name, [operation |-> "none"]>>>>
    ELSE [k \in DOMAIN ds |-> <<"IO", name, ds[k].params>>]
LoadsOf(i) ==
    FlattenSeqs([k \in DOMAIN StratumNode(i).inputs |->
        IoOf(StratumNode(i).inputs[k],
             SelectSeq(program.relations[StratumNode(i).inputs[k]].directives,
                       IsLoadDirective))])
StoresOf(i) ==
    FlattenSeqs([k \in DOMAIN StratumNode(i).outputs |->
        IoOf(StratumNode(i).outputs[k],
             SelectSeq(program.relations[StratumNode(i).outputs[k]].directives,
                       IsStoreDirective))])
ClearsOf(i) == [k \in DOMAIN program.expired[i] |-> <<"Clear", program.expired[i][k]>>]
\* a statement of the sequence of a stratum: a load or a store with its
\* relation and directive, a Clear with its relation, or the body
Outline(s) ==
    IF Strip(s).kind = "IO" THEN <<"IO", Strip(s).rel, Strip(s).directive>>
    ELSE IF Strip(s).kind = "Clear" THEN <<"Clear", Strip(s).rel>>
    ELSE <<"body">>
OutlineOf(i) ==
    [k \in DOMAIN ramSubroutines[stratumID(i - 1)].stmts |->
        Outline(ramSubroutines[stratumID(i - 1)].stmts[k])]

\* C17: the statement sequence of a stratum is the loads of its input
\* relations, then its body, then the stores of its output relations, then
\* the Clear of each expired relation; a relation has one load per input
\* directive and one store per output or printsize directive, and exactly
\* one load or store with the empty directive when it has no such directive.
C17_StratumSequence ==
    \A i \in DOMAIN program.sccOrdering : Translated(i) =>
        /\ ramSubroutines[stratumID(i - 1)].kind = "Sequence"
        /\ OutlineOf(i) = LoadsOf(i) \o <<<<"body">>>> \o StoresOf(i) \o ClearsOf(i)

\* a stratum with a load, two stores and a Clear of an expired relation has
\* been translated and has run, and so has a stratum whose load and store
\* have the empty directive
C17_Witness ==
    /\ \E i \in DOMAIN program.sccOrdering :
        /\ stratumID(i - 1) \in finished
        /\ Len(LoadsOf(i)) = 1 /\ Len(StoresOf(i)) = 2 /\ Len(ClearsOf(i)) = 1
        /\ Len(OutlineOf(i)) = 5
    /\ \E i \in DOMAIN program.sccOrdering :
        /\ stratumID(i - 1) \in finished
        /\ OutlineOf(i)[1] = <<"IO", "silent", [operation |-> "none"]>>
        /\ OutlineOf(i)[3] = <<"IO", "silent", [operation |-> "none"]>>


(***************************************************************************)
(* Naive evaluation of the clauses: every clause is applied to the whole   *)
(* relations until nothing new is derived.                                 *)
(***************************************************************************)
VariablesOf(atom) ==
    {atom.args[k].name : k \in {k \in DOMAIN atom.args : atom.args[k].kind = "Variable"}}
ClauseVariables(clause) ==
    VariablesOf(clause.head) \cup UNION {VariablesOf(l) : l \in Range(clause.body)}
\* the argument of an atom takes the value x under the valuation v
Takes(arg, x, v) ==
    CASE arg.kind = "Variable" -> v[arg.name] = x
      [] arg.kind = "NumericConstant" -> arg.val = x
      [] OTHER -> TRUE
Satisfied(atom, v, d) ==
    \E t \in d[atom.name] : \A k \in DOMAIN atom.args : Takes(atom.args[k], t[k], v)
HeadTuple(head, v) ==
    [k \in DOMAIN head.args |->
        IF head.args[k].kind = "Variable" THEN v[head.args[k].name] ELSE head.args[k].val]
Consequences(clause, d) ==
    {HeadTuple(clause.head, v) :
        v \in {w \in [ClauseVariables(clause) -> Vals] :
                    \A l \in Range(clause.body) : Satisfied(l, w, d)}}
ImmediateConsequences(d) ==
    [r \in DOMAIN d |->
        d[r] \cup UNION {Consequences(program.clauses[c], d) :
                            c \in {c \in DOMAIN program.clauses :
                                        program.clauses[c].head.name = r}}]
RECURSIVE LeastFixpoint(_)
LeastFixpoint(d) ==
    IF ImmediateConsequences(d) = d THEN d ELSE LeastFixpoint(ImmediateConsequences(d))
\* the relations as loaded from the fact files
LoadedFacts ==
    [r \in DOMAIN program.relations |->
        IF /\ r \in DOMAIN facts
           /\ \E n \in Range(program.sccGraph) : r \in Range(n.inputs)
           /\ \E d \in Range(program.relations[r].directives) : d.type = "input"
        THEN facts[r] ELSE {}]
\* every clause of the program is positive: atoms only, no subsumption
PositiveProgram ==
    \A c \in Range(program.clauses) :
        /\ ~c.subsumptive
        /\ \A l \in Range(c.body) : l.kind = "Atom"
\* a recursive stratum without limitsize and functional dependencies
PlainRecursive(i) ==
    /\ StratumNode(i).recursive
    /\ \A r \in Range(StratumNode(i).relations) :
        /\ program.relations[r].limitsize = 0
        /\ program.relations[r].functionalDependencies = <<>>

\* C18: when the subroutine of a recursive stratum without negation,
\* aggregate, functional dependency, subsumption or limitsize has returned,
\* every relation of its component holds exactly the tuples of the least
\* fixpoint of the clauses computed by naive evaluation from the loaded
\* facts.
C18_NaiveEquivalence ==
    \A i \in DOMAIN program.sccOrdering :
        (PositiveProgram /\ PlainRecursive(i) /\ stratumID(i - 1) \in finished) =>
            \A r \in Range(StratumNode(i).relations) :
                db[r] = LeastFixpoint(LoadedFacts)[r]

\* the stratum of a rule with two atoms of its component has returned with
\* the least fixpoint, which has tuples that only the recursive rule derives
C18_Witness ==
    \E i \in DOMAIN program.sccOrdering :
        /\ PositiveProgram /\ PlainRecursive(i) /\ stratumID(i - 1) \in finished
        /\ \E c \in Range(program.clauses) :
                Cardinality({l \in DOMAIN c.body :
                    c.body[l].name \in Range(StratumNode(i).relations)}) = 2
        /\ \E r \in Range(StratumNode(i).relations) :
                /\ db[r] = LeastFixpoint(LoadedFacts)[r]
                /\ db[r] # ImmediateConsequences(LoadedFacts)[r]


\* the filter that keeps the tuples of the head out of its concrete relation
HeadGuard(in) ==
    RamNegation(ExistenceCheck(in.clause.head.name,
        translateValues(in.clause, VersionOrder(in), in.clause.head.args)))

\* databases for the rules of path and of keyed: the contents of edge, of
\* the relation and of its @delta_ relation over the values 1 and 2, with
\* or without the fact flag()
AllPairs == {<<1, 1>>, <<1, 2>>, <<2, 1>>, <<2, 2>>}
BinaryContents == {{}, {<<1, 1>>}, {<<1, 2>>, <<2, 1>>}, AllPairs}
NullaryContents == {{}, {<<>>}}
ClauseDatabase(e, p, dp, f) ==
    [n \in {"edge", "path", "flag", "best", "keyed",
            "@delta_path", "@delta_flag", "@delta_keyed",
            "@new_path", "@new_flag", "@new_keyed"} |->
        CASE n = "edge" -> e
          [] n \in {"path", "keyed"} -> p
          [] n \in {"@delta_path", "@delta_keyed"} -> dp
          [] n \in {"flag", "@delta_flag"} -> f
          [] OTHER -> {}]
\* a firing of the query on the database inserts no tuple of the relation
\* into its @new_ relation
NothingReinserted(query, name, d) ==
    \A ins \in EvalOp(query.operation, <<>>, d) :
        ins[1] = "@new_" \o name => ins[2] \notin d[name]
\* the @delta_ relation holds tuples of its relation only
NeverReinserts(query, name) ==
    \A e, p \in BinaryContents : \A dp \in {c \in BinaryContents : c \subseteq p} :
        \A f \in NullaryContents :
            NothingReinserted(query, name, ClauseDatabase(e, p, dp, f))

\* a database where the rules of path derive tuples that path has and
\* tuples that it has not
RederivingDatabase ==
    ClauseDatabase(AllPairs, {<<1, 1>>, <<1, 2>>, <<2, 1>>}, {<<1, 2>>, <<2, 1>>},
                   {<<>>})

\* C19 (as stated): the query of every recursive clause with a non-nullary
\* head has a filter with a negated ExistenceCheck of the lowered arguments
\* of the head against the concrete relation of the head
C19_HeadGuard ==
    (Returns("translateRecursiveClause") /\ Arity(input.clause.head) > 0) =>
        HeadGuard(input) \in FilterConditions(QueryOf(output.result).operation)

\* C19 (amended): the query of a recursive clause that is not subsumptive
\* and has a non-nullary head has a filter with a negated ExistenceCheck of
\* the lowered arguments of the head against the concrete relation of the
\* head, and a firing of the query inserts into @new_R no tuple that is in
\* R; the query of a subsumptive clause has no such filter.
C19_HeadGuardUnlessSubsumptive ==
    (Returns("translateRecursiveClause") /\ Arity(input.clause.head) > 0) =>
        IF input.clause.subsumptive
        THEN HeadGuard(input) \notin FilterConditions(QueryOf(output.result).operation)
        ELSE /\ HeadGuard(input) \in FilterConditions(QueryOf(output.result).operation)
             /\ NeverReinserts(QueryOf(output.result), input.clause.head.name)

\* a version of a rule of path with two atoms of the component has been
\* translated, and the query fires on a database where the rule derives a
\* tuple that path has already
C19_Witness ==
    /\ Returns("translateRecursiveClause")
    /\ ~input.clause.subsumptive
    /\ input.clause.head.name = "path"
    /\ Len(SccAtomsOf(input.clause, input.scc)) = 2
    /\ HeadGuard(input) \in FilterConditions(QueryOf(output.result).operation)
    /\ EvalOp(QueryOf(output.result).operation, <<>>, RederivingDatabase) # {}
    /\ Consequences(input.clause, RederivingDatabase) \cap RederivingDatabase["path"] # {}


\* the clause translator has translated the drawn clause
TranslatesClause ==
    Returns("translateNonRecursiveClause") \/ Returns("translateRecursiveClause")
\* the translation ran in recursive mode: the clause has atoms of the SCC
InRecursiveMode ==
    Returns("translateRecursiveClause") /\ SccAtomsOf(input.clause, input.scc) # <<>>
\* the relation the head is written to
HeadTarget ==
    IF input.clause.subsumptive
    THEN getClauseAtomName(input.clause, 0,
            InputCtx(input, SccAtomsOf(input.clause, input.scc), input.version))
    ELSE IF InRecursiveMode THEN "@new_" \o input.clause.head.name
    ELSE input.clause.head.name
\* the operators the head arguments are lowered with
HeadOperators ==
    IF isFact(input.clause) THEN <<>>
    ELSE getAtomOrdering(input.clause,
            InputCtx(input,
                IF Returns("translateRecursiveClause")
                THEN SccAtomsOf(input.clause, input.scc) ELSE <<>>,
                IF Returns("translateRecursiveClause") THEN input.version ELSE 0))
\* the lowered head arguments on the key columns of a dependency, the
\* undefined value on the other columns
KeyValues(fd) ==
    [i \in DOMAIN input.clause.head.args |->
        IF ClauseRelations[input.clause.head.name].attributes[i] \in fd
        THEN translateValue(input.clause, HeadOperators, input.clause.head.args[i])
        ELSE [kind |-> "UndefValue"]]
NotIn(rel, values) ==
    [kind |-> "Negation",
     arg |-> [kind |-> "ExistenceCheck", rel |-> rel, values |-> values]]
\* the checks of the dependencies of the head relation: for each dependency
\* that is not a repetition of an earlier one, a check against the target
\* relation and, in recursive mode, a check against the concrete relation
KeyChecks(fds) ==
    FlattenSeqs([i \in DOMAIN fds |->
        IF \E j \in 1..(i - 1) : fds[j] = fds[i] THEN <<>>
        ELSE <<NotIn(HeadTarget, KeyValues(fds[i]))>>
             \o (IF InRecursiveMode
                 THEN <<NotIn(input.clause.head.name, KeyValues(fds[i]))>>
                 ELSE <<>>)])
\* the query of the translated clause
TranslatedQuery ==
    IF Returns("translateRecursiveClause") THEN QueryOf(output.result) ELSE output.result

\* C20: the insertion of a clause with a nullary head is
\* Filter(EmptinessCheck(H), Insert(H, [])) on the target relation H of the
\* head; with a non-nullary head and functional dependencies on the head
\* relation it is GuardedInsert(H, values, condition), the condition being
\* the conjunction, over the distinct dependencies, of a negated
\* ExistenceCheck of the key columns against H and, in recursive mode, of a
\* second one against the concrete relation; otherwise it is Insert(H,
\* values).
C20_Insertion ==
    TranslatesClause =>
        IF Arity(input.clause.head) = 0
        THEN /\ InsertionOf(TranslatedQuery.operation) =
                    [kind |-> "Insert", rel |-> HeadTarget, values |-> <<>>]
             /\ Len(OperationChain(TranslatedQuery.operation)) >= 2
             /\ OperationChain(TranslatedQuery.operation)
                    [Len(OperationChain(TranslatedQuery.operation)) - 1] =
                        [kind |-> "Filter",
                         cond |-> [kind |-> "EmptinessCheck", rel |-> HeadTarget],
                         inner |-> [kind |-> "Insert", rel |-> HeadTarget,
                                    values |-> <<>>]]
        ELSE IF HasFunctionalDependencies(input.clause)
        THEN /\ InsertionOf(TranslatedQuery.operation).kind = "GuardedInsert"
             /\ InsertionOf(TranslatedQuery.operation).rel = HeadTarget
             /\ InsertionOf(TranslatedQuery.operation).values =
                    translateValues(input.clause, HeadOperators, input.clause.head.args)
             /\ Conjuncts(InsertionOf(TranslatedQuery.operation).cond) =
                    KeyChecks(ClauseRelations[input.clause.head.name].functionalDependencies)
        ELSE InsertionOf(TranslatedQuery.operation) =
                [kind |-> "Insert", rel |-> HeadTarget,
                 values |-> translateValues(input.clause, HeadOperators,
                                            input.clause.head.args)]

\* a recursive rule of a relation with three declared dependencies, two of
\* them distinct, has been translated: the GuardedInsert into @new_keyed
\* has four checks
C20_Witness ==
    /\ InRecursiveMode
    /\ Len(ClauseRelations[input.clause.head.name].functionalDependencies) = 3
    /\ InsertionOf(TranslatedQuery.operation).kind = "GuardedInsert"
    /\ InsertionOf(TranslatedQuery.operation).rel = "@new_keyed"
    /\ Len(Conjuncts(InsertionOf(TranslatedQuery.operation).cond)) = 4



\* the condition of the entry filter of a clause with the given head
EntryCondition(clause) ==
    [kind |-> "EmptinessCheck", rel |-> clause.head.name]
\* the operation has an entry filter: it is a Filter on the emptiness of a
\* relation, and not the Filter around the insertion of a nullary head
HasEntryFilter(op) ==
    /\ Len(OperationChain(op)) > 2
    /\ op.kind = "Filter"
    /\ op.cond.kind = "EmptinessCheck"
\* a firing of the query on the database inserts nothing
InsertsNothing(query, d) == EvalOp(query.operation, <<>>, d) = {}
NeverRederives(query) ==
    \A e, p \in BinaryContents : \A dp \in {c \in BinaryContents : c \subseteq p} :
        InsertsNothing(query, ClauseDatabase(e, p, dp, {<<>>}))
\* a database where path has a loop that edge has not, and flag is empty
LoopDatabase == ClauseDatabase({<<1, 2>>, <<2, 1>>}, AllPairs, AllPairs, {})

TranslationCtx ==
    InputCtx(input,
        IF Returns("translateRecursiveClause")
        THEN SccAtomsOf(input.clause, input.scc) ELSE <<>>,
        IF Returns("translateRecursiveClause") THEN input.version ELSE 0)
\* the relation the atom at a position of the clause is read from (written
\* to, for the head)
SourceOf(p) == getClauseAtomName(input.clause, p, TranslationCtx)
\* the atom has a scan of its own: it has arguments, not all of them
\* unnamed
IsScanned(atom) ==
    /\ Arity(atom) # 0
    /\ \E i \in DOMAIN atom.args : atom.args[i].kind # "UnnamedVariable"
\* the places of the chain of an operation with a Scan at a level
ScansAt(op, level) ==
    {i \in DOMAIN OperationChain(op) :
        /\ OperationChain(op)[i].kind = "Scan"
        /\ OperationChain(op)[i].level = level}
BreaksOf(op) ==
    {i \in DOMAIN OperationChain(op) : OperationChain(op)[i].kind = "Break"}
NotEmpty(rel) ==
    [kind |-> "Negation", arg |-> [kind |-> "EmptinessCheck", rel |-> rel]]

\* C22 (as stated): for every scanned atom of a clause with a nullary head
\* the operation has a Break on EmptinessCheck of the head relation whose
\* nested operation is the Scan of the atom
C22_BreakAroundScan ==
    (TranslatesClause /\ isRule(input.clause) /\ Arity(input.clause.head) = 0) =>
        \A k \in DOMAIN HeadOperators :
            IsScanned(AtomAt(input.clause, HeadOperators[k])) =>
                \E i \in BreaksOf(TranslatedQuery.operation) :
                    /\ OperationChain(TranslatedQuery.operation)[i].cond =
                            [kind |-> "EmptinessCheck", rel |-> SourceOf(0)]
                    /\ i + 1 \in ScansAt(TranslatedQuery.operation, k - 1)

\* C22 (amended): for the k-th atom of the ordered body the operation has
\* the Filter "the relation of the atom is not empty"; when the atom has
\* arguments that are not all unnamed it has one Scan at level k-1 over the
\* relation of the atom, and no Scan at that level otherwise; when the head
\* is nullary the operation nested in each Scan is a Break on "the relation
\* the head is written to is not empty" (the Break is inside the Scan and
\* its condition is the negated EmptinessCheck), and there is no Break
\* anywhere else.
C22_AtomScan ==
    (TranslatesClause /\ isRule(input.clause)) =>
        /\ \A k \in DOMAIN HeadOperators :
            /\ NotEmpty(SourceOf(HeadOperators[k])) \in
                    FilterConditions(TranslatedQuery.operation)
            /\ IF IsScanned(AtomAt(input.clause, HeadOperators[k]))
               THEN /\ Cardinality(ScansAt(TranslatedQuery.operation, k - 1)) = 1
                    /\ \A i \in ScansAt(TranslatedQuery.operation, k - 1) :
                        /\ OperationChain(TranslatedQuery.operation)[i].rel =
                                SourceOf(HeadOperators[k])
                        /\ IF Arity(input.clause.head) = 0
                           THEN /\ i + 1 \in BreaksOf(TranslatedQuery.operation)
                                /\ OperationChain(TranslatedQuery.operation)[i + 1].cond =
                                        NotEmpty(SourceOf(0))
                           ELSE i + 1 \notin BreaksOf(TranslatedQuery.operation)
               ELSE ScansAt(TranslatedQuery.operation, k - 1) = {}
        /\ \A i \in BreaksOf(TranslatedQuery.operation) :
            /\ i > 1
            /\ OperationChain(TranslatedQuery.operation)[i - 1].kind = "Scan"

\* the recursive rule of flag has been translated: the Scan of @delta_path
\* holds a Break on "@new_flag is not empty"
C22_Witness ==
    /\ InRecursiveMode
    /\ Arity(input.clause.head) = 0
    /\ \E i \in ScansAt(TranslatedQuery.operation, 0) :
        /\ OperationChain(TranslatedQuery.operation)[i].rel = "@delta_path"
        /\ OperationChain(TranslatedQuery.operation)[i + 1] =
                Break(NotEmpty("@new_flag"),
                      OperationChain(TranslatedQuery.operation)[i + 2])



\* the members of the translator when the atoms of the drawn clause are
\* ordered
PlannerCtx == InputCtx(input, SccAtomsOf(input.clause, input.scc), input.version)
\* the Selinger planner has ordered the atoms of the drawn clause
Planned ==
    /\ Returns("getAtomOrdering")
    /\ input.autoSchedule
    /\ Len(BodyAtoms(input.clause)) >= 2
\* the candidates for the set of all atoms, in the order they are found: the
\* k-th one ends with atom k
Candidates ==
    [k \in DOMAIN BodyAtoms(input.clause) |->
        ExtendPlan(input.clause, PlannerCtx,
            BestPlan(input.clause, PlannerCtx, DOMAIN BodyAtoms(input.clause) \ {k}),
            DOMAIN BodyAtoms(input.clause) \ {k}, k)]
\* the candidates of least cost
Cheapest ==
    {k \in DOMAIN Candidates :
        \A j \in DOMAIN Candidates : Candidates[k].cost2 <= Candidates[j].cost2}
FirstSeen == Candidates[CHOOSE k \in Cheapest : \A j \in Cheapest : k <= j]
LastSeen == Candidates[CHOOSE k \in Cheapest : \A j \in Cheapest : j <= k]
OrderedBy(plan) == reorderAtoms(BodyAtoms(input.clause), zeroBased(plan))

\* C23 (as stated): among the candidate plans of least cost for the set of
\* all atoms, the planner returns the order of the one found first
C23_FirstSeenWins ==
    Planned => output.result = OrderedBy(FirstSeen.plan)

\* what the planner does: among the candidate plans of least cost for the
\* set of all atoms, it returns the order of the one found last
C23_LastSeenWins ==
    Planned => output.result = OrderedBy(LastSeen.plan)

\* two candidates with different orders have the least cost, and the
\* planner has returned the order of the later one
C23_Witness ==
    /\ Planned
    /\ FirstSeen.cost2 = LastSeen.cost2
    /\ OrderedBy(FirstSeen.plan) # OrderedBy(LastSeen.plan)
    /\ output.result = OrderedBy(LastSeen.plan)


(***************************************************************************)
(* The levels of a clause with nested records, sum-type constructors and   *)
(* generators (ClauseTranslator::indexClause and the operations built on   *)
(* the levels).                                                            *)
(*                                                                         *)
(* A node of the clause is known by its place, which stands for the        *)
(* pointer of the source: <<0>> is the head and <<p>> the body literal p;  *)
(* the place of a child appends its number to the place of its parent      *)
(* (arguments from 1, the sides of a constraint 1 and 2, the target of an  *)
(* aggregator 0 and the literals of its body from 1).                      *)
(*                                                                         *)
(* The members of the translator are the fields of the record idx:         *)
(*   operators, generators   the vectors of the translator,                *)
(*   refs, defs, genLocs     the three maps of the ValueIndex.             *)
(***************************************************************************)
UnpackRecord(o, l, e, n) ==
    [kind |-> "UnpackRecord", inner |-> o, level |-> l, expr |-> e, arity |-> n]
Aggregate(o, f, r, e, c, l) ==
    [kind |-> "Aggregate", inner |-> o, fn |-> f, rel |-> r, expr |-> e,
     cond |-> c, level |-> l]
NestedIntrinsicOperator(f, as, o, l) ==
    [kind |-> "NestedIntrinsicOperator", fn |-> f, args |-> as, inner |-> o,
     level |-> l]

Placed(node, place) == [node |-> node, place |-> place]
ArgPlaces(place, args) == [j \in DOMAIN args |-> Append(place, j)]

EmptyIndex ==
    [operators |-> <<>>, generators |-> <<>>, refs |-> {}, defs |-> {}, genLocs |-> {}]

\* ValueIndex::addVarReference
addVarReference(idx, name, level, col) ==
    [idx EXCEPT !.refs = @ \cup {[name |-> name, loc |-> Location(level, col)]}]

\* ValueIndex::setRecordDefinition and setAdtDefinition
setDefinition(idx, place, level, col) ==
    [idx EXCEPT !.defs = @ \cup {[place |-> place, loc |-> Location(level, col)]}]

\* ValueIndex::getDefinitionPoint
getDefinitionPoint(idx, place) ==
    (CHOOSE d \in idx.defs : d.place = place).loc

\* ValueIndex::setGeneratorLoc
setGeneratorLoc(idx, place, loc) ==
    [idx EXCEPT !.genLocs = @ \cup {[place |-> place, loc |-> loc]}]

\* ValueIndex::getGeneratorLoc
getGeneratorLoc(idx, place) ==
    (CHOOSE g \in idx.genLocs : g.place = place).loc

\* ValueIndex::getVariableReferences on the index of the clause
referencesOf(idx, name) == {r.loc : r \in {q \in idx.refs : q.name = name}}

\* operators.size() + generators.size(): the level the next node is given
nextLevel(idx) == Len(idx.operators) + Len(idx.generators)

\* ClauseTranslator::addOperatorLevel: the node is pushed on the operators
\* (the level returned is nextLevel before the call)
addOperatorLevel(idx, node, place) ==
    [idx EXCEPT !.operators = Append(@, Placed(node, place))]

\* ClauseTranslator::addGeneratorLevel
addGeneratorLevel(idx, arg, place) ==
    [idx EXCEPT !.generators = Append(@, Placed(arg, place))]

\* TranslatorContext::isADTEnum, isADTBranchSimple and getADTBranchId
contextIsADTEnum(adt) == isADTEnum(unsafeGetType(adt.ctor))
isADTBranchSimple(adt) == Len(adt.args) <= 1
getADTBranchId(adt) == lower_bound(unsafeGetType(adt.ctor), adt.ctor)

\* the levels of a nested record: its definition point, then one level
indexRecord(idx, nodeLevel, col, rec, place) ==
    addOperatorLevel(setDefinition(idx, place, nodeLevel, col), rec, place)

\* indexBranch with a single level for every constructor
indexBranch_OneLevel(idx, nodeLevel, col, adt, place) ==
    addOperatorLevel(setDefinition(idx, place, nodeLevel, col), adt, place)

\* the levels of a constructor that is not of an enum: its definition
\* point, then one level for a simple branch and two levels otherwise
indexBranch(idx, nodeLevel, col, adt, place) ==
    IF isADTBranchSimple(adt)
    THEN addOperatorLevel(setDefinition(idx, place, nodeLevel, col), adt, place)
    ELSE addOperatorLevel(
            addOperatorLevel(setDefinition(idx, place, nodeLevel, col), adt, place),
            adt, place)

\* the arguments indexed below a constructor: a dummy argument in front for
\* the branch id of a simple branch
branchArgs(adt) ==
    IF isADTBranchSimple(adt) THEN <<UnnamedVariable>> \o adt.args ELSE adt.args
branchPlaces(adt, place) ==
    IF isADTBranchSimple(adt) THEN << <<>> >> \o ArgPlaces(place, adt.args)
    ELSE ArgPlaces(place, adt.args)

\* the only element of a set with one element
TheOne(S) == CHOOSE r \in S : TRUE

\* the reference of a variable argument of a node of level nodeLevel
indexVariable(idx, nodeLevel, col, arg) ==
    IF arg.kind = "Variable" THEN addVarReference(idx, arg.name, nodeLevel, col)
    ELSE idx

\* the index once a nested argument has its levels, before its arguments
\* are indexed
withLevelsOf(idx, nodeLevel, col, arg, place) ==
    IF arg.kind = "RecordInit" THEN indexRecord(idx, nodeLevel, col, arg, place)
    ELSE indexBranch(idx, nodeLevel, col, arg, place)

nestedArgs(arg) == IF arg.kind = "RecordInit" THEN arg.args ELSE branchArgs(arg)
nestedPlaces(arg, place) ==
    IF arg.kind = "RecordInit" THEN ArgPlaces(place, arg.args)
    ELSE branchPlaces(arg, place)
isNested(arg) ==
    \/ arg.kind = "RecordInit"
    \/ arg.kind = "BranchInit" /\ ~contextIsADTEnum(arg)

\* ClauseTranslator::indexNodeArguments: the arguments of a node of level
\* nodeLevel, from argument i on; places[i] is the place of argument i.
\* The arguments of a nested argument are on its last level (unpackLevel,
\* or argumentUnpackLevel for a constructor with two levels)
RECURSIVE indexNodeArgumentsFrom(_, _, _, _, _)
indexNodeArgumentsFrom(i, nodeLevel, nodeArgs, places, idx) ==
    IF i > Len(nodeArgs) THEN idx
    ELSE TheOne({
            indexNodeArgumentsFrom(i + 1, nodeLevel, nodeArgs, places,
                IF isNested(nodeArgs[i])
                THEN TheOne({
                        indexNodeArgumentsFrom(1, nextLevel(w) - 1,
                            nestedArgs(nodeArgs[i]), nestedPlaces(nodeArgs[i], places[i]), w) :
                        w \in {withLevelsOf(v, nodeLevel, i - 1, nodeArgs[i], places[i])}})
                ELSE indexVariable(v, nodeLevel, i - 1, nodeArgs[i])) :
            v \in {idx}})

indexNodeArguments(nodeLevel, nodeArgs, places, idx) ==
    indexNodeArgumentsFrom(1, nodeLevel, nodeArgs, places, idx)

\* ClauseTranslator::indexAtoms: every atom of the ordering is given the
\* current level, then its arguments are indexed
RECURSIVE indexAtomsFrom(_, _, _, _)
indexAtomsFrom(k, clause, ordering, idx) ==
    IF k > Len(ordering) THEN idx
    ELSE TheOne({
            indexAtomsFrom(k + 1, clause, ordering,
                indexNodeArguments(nextLevel(v), AtomAt(clause, ordering[k]).args,
                    ArgPlaces(<<ordering[k]>>, AtomAt(clause, ordering[k]).args),
                    addOperatorLevel(v, AtomAt(clause, ordering[k]), <<ordering[k]>>))) :
            v \in {idx}})

indexAtoms(clause, ctx) == indexAtomsFrom(1, clause, getAtomOrdering(clause, ctx), EmptyIndex)


\* the children of a node with their places (Node::getChildNodes)
NoTarget == [kind |-> "null"]
ChildrenOf(node, place) ==
    CASE node.kind \in {"Atom", "RecordInit", "BranchInit", "IntrinsicFunctor"} ->
            [j \in DOMAIN node.args |-> Placed(node.args[j], Append(place, j))]
      [] node.kind = "Negation" -> <<Placed(node.atom, Append(place, 1))>>
      [] node.kind = "BinaryConstraint" ->
            <<Placed(node.lhs, Append(place, 1)), Placed(node.rhs, Append(place, 2))>>
      [] node.kind = "Aggregator" ->
            (IF node.target = NoTarget THEN <<>>
             ELSE <<Placed(node.target, Append(place, 0))>>)
            \o [j \in DOMAIN node.body |-> Placed(node.body[j], Append(place, j))]
      [] OTHER -> <<>>

\* visit(node, ...): the nodes below and including a node, depth first, a
\* node before its children
RECURSIVE NodesOf(_, _)
NodesOf(node, place) ==
    LET children == ChildrenOf(node, place)
    IN <<Placed(node, place)>>
       \o FlattenSeqs([j \in DOMAIN children |->
                          NodesOf(children[j].node, children[j].place)])

\* visit(clause, ...): the head, then the literals of the body
ClauseNodes(clause) ==
    NodesOf(clause.head, <<0>>)
    \o FlattenSeqs([p \in DOMAIN clause.body |-> NodesOf(clause.body[p], <<p>>)])

\* FunctorAnalysis::isMultiResult
isMultiResult(func) == func.fn \in {"range", "urange", "frange"}

\* ClauseTranslator::indexGenerator
indexGenerator(idx, arg, place) ==
    setGeneratorLoc(addGeneratorLevel(idx, arg, place), place,
                    Location(nextLevel(idx), 0))

\* the single atom of the body of an aggregator: its number in the body
aggAtomOf(agg) == CHOOSE j \in DOMAIN agg.body : IsAtom(agg.body[j])

\* the variable arguments of the atom of an aggregator, from argument i on
RECURSIVE indexAggregatorArgs(_, _, _, _)
indexAggregatorArgs(i, args, level, idx) ==
    IF i > Len(args) THEN idx
    ELSE indexAggregatorArgs(i + 1, args, level,
            IF args[i].kind = "Variable"
            THEN addVarReference(idx, args[i].name, level, i - 1)
            ELSE idx)

\* ClauseTranslator::indexAggregatorBody
indexAggregatorBody(idx, agg, place) ==
    indexAggregatorArgs(1, agg.body[aggAtomOf(agg)].args,
                        getGeneratorLoc(idx, place).identifier, idx)

\* the introduction of a value: lhs = generator binds the variable lhs to
\* the location of the generator
indexIntroduction(idx, bc, place, IsGenerator(_)) ==
    IF /\ isEqConstraint(bc.bop)
       /\ bc.lhs.kind = "Variable"
       /\ IsGenerator(bc.rhs)
    THEN LET loc == getGeneratorLoc(idx, Append(place, 2))
         IN addVarReference(idx, bc.lhs.name, loc.identifier, loc.element)
    ELSE idx

IsAggregator(arg) == arg.kind = "Aggregator"
IsMultiResultFunctor(arg) == arg.kind = "IntrinsicFunctor" /\ isMultiResult(arg)

\* one visitor of indexAggregators and indexMultiResultFunctors on a node
indexVisitor(pass, idx, pn) ==
    CASE pass = "aggregator" /\ IsAggregator(pn.node) ->
            indexGenerator(idx, pn.node, pn.place)
      [] pass = "aggregatorBody" /\ IsAggregator(pn.node) ->
            indexAggregatorBody(idx, pn.node, pn.place)
      [] pass = "aggregatorValue" /\ pn.node.kind = "BinaryConstraint" ->
            indexIntroduction(idx, pn.node, pn.place, IsAggregator)
      [] pass = "functor" /\ IsMultiResultFunctor(pn.node) ->
            indexGenerator(idx, pn.node, pn.place)
      [] pass = "functorValue" /\ pn.node.kind = "BinaryConstraint" ->
            indexIntroduction(idx, pn.node, pn.place, IsMultiResultFunctor)
      [] OTHER -> idx

RECURSIVE indexVisit(_, _, _, _)
indexVisit(pass, nodes, i, idx) ==
    IF i > Len(nodes) THEN idx
    ELSE indexVisit(pass, nodes, i + 1, indexVisitor(pass, idx, nodes[i]))

\* visit(clause, [&](const T&) ...): the nodes of one kind, in visit order
IsPlacedAggregator(pn) == IsAggregator(pn.node)
IsPlacedFunctor(pn) == IsMultiResultFunctor(pn.node)
IsPlacedConstraint(pn) == pn.node.kind = "BinaryConstraint"
AggregatorsOf(clause) == SelectSeq(ClauseNodes(clause), IsPlacedAggregator)
MultiResultFunctorsOf(clause) == SelectSeq(ClauseNodes(clause), IsPlacedFunctor)
BinaryConstraintsOf(clause) == SelectSeq(ClauseNodes(clause), IsPlacedConstraint)

\* ClauseTranslator::indexAggregators
indexAggregators(clause, idx) ==
    indexVisit("aggregatorValue", BinaryConstraintsOf(clause), 1,
        indexVisit("aggregatorBody", AggregatorsOf(clause), 1,
            indexVisit("aggregator", AggregatorsOf(clause), 1, idx)))

\* ClauseTranslator::indexMultiResultFunctors
indexMultiResultFunctors(clause, idx) ==
    indexVisit("functorValue", BinaryConstraintsOf(clause), 1,
        indexVisit("functor", MultiResultFunctorsOf(clause), 1, idx))

\* ClauseTranslator::indexClause on a clause with nested arguments and
\* generators: the translator and its ValueIndex once the clause is indexed
indexedClause(clause, ctx) ==
    indexMultiResultFunctors(clause, indexAggregators(clause, indexAtoms(clause, ctx)))


\* ValueTranslator::translate on the index of the clause: a variable is
\* read at its first reference, a generator at its location
IntrinsicOperator(f, as) == [kind |-> "IntrinsicOperator", fn |-> f, args |-> as]
PackRecord(as) == [kind |-> "PackRecord", args |-> as]

RECURSIVE translateIndexedValue(_, _, _)
translateIndexedValue(idx, arg, place) ==
    CASE arg.kind = "Variable" ->
            IF referencesOf(idx, arg.name) = {} THEN UndefValue
            ELSE makeRamTupleElement(FirstReference(referencesOf(idx, arg.name)))
      [] arg.kind = "UnnamedVariable" -> UndefValue
      [] arg.kind = "NumericConstant" -> SignedConstant(arg.val)
      [] IsAggregator(arg) \/ IsMultiResultFunctor(arg) ->
            makeRamTupleElement(getGeneratorLoc(idx, place))
      [] arg.kind = "IntrinsicFunctor" ->
            IntrinsicOperator(arg.fn,
                [j \in DOMAIN arg.args |->
                    translateIndexedValue(idx, arg.args[j], Append(place, j))])
      [] arg.kind = "RecordInit" ->
            PackRecord([j \in DOMAIN arg.args |->
                    translateIndexedValue(idx, arg.args[j], Append(place, j))])

\* ConstraintTranslator::translate on the index of the clause
translateIndexedConstraint(idx, lit, place) ==
    CASE lit.kind = "Atom" -> NoCondition
      [] lit.kind = "BinaryConstraint" ->
            Constraint(BinaryConstraintOp(lit.bop),
                translateIndexedValue(idx, lit.lhs, Append(place, 1)),
                translateIndexedValue(idx, lit.rhs, Append(place, 2)))
      [] lit.kind = "Negation" ->
            IF Arity(lit.atom) = 0
            THEN EmptinessCheck(getConcreteRelationName(lit.atom.name))
            ELSE RamNegation(ExistenceCheck(getConcreteRelationName(lit.atom.name),
                    [j \in DOMAIN lit.atom.args |->
                        translateIndexedValue(idx, lit.atom.args[j],
                                              place \o <<1, j>>)]))

\* ram::addConjunctiveTerm
addConjunctiveTerm(cond, term) ==
    IF cond = NoCondition THEN term ELSE Conjunction(cond, term)

\* ClauseTranslator::addRecordUnpack
addRecordUnpack(op, rec, curLevel, idx) ==
    UnpackRecord(addConstantConstraints(curLevel, rec.node.args, op), curLevel,
                 makeRamTupleElement(getDefinitionPoint(idx, rec.place)),
                 Len(rec.node.args))

\* ClauseTranslator::addAdtUnpack
addAdtUnpack(op, adt, curLevel, idx) ==
    LET simple == isADTBranchSimple(adt.node)
        branchLevel == IF simple THEN curLevel ELSE curLevel - 1
        branchArguments == IF simple THEN <<UnnamedVariable>> \o adt.node.args
                           ELSE adt.node.args
        \* the constraint on the tag of the branch
        op1 == addEqualityCheck(op, TupleElement(branchLevel, 0),
                    SignedConstant(getADTBranchId(adt.node)), FALSE)
        op2 == IF simple
               THEN addConstantConstraints(branchLevel, branchArguments, op1)
               ELSE UnpackRecord(addConstantConstraints(curLevel, branchArguments, op1),
                        curLevel, TupleElement(branchLevel, 1), Len(branchArguments))
    IN  \* the unpack level of the main record
        UnpackRecord(op2, branchLevel,
                     makeRamTupleElement(getDefinitionPoint(idx, adt.place)), 2)

\* ClauseTranslator::addVariableIntroductions on the operators of the index,
\* from operator p down to the first one; a constructor with two levels
\* takes two of them
RECURSIVE addVariableIntroductionsAt(_, _, _, _, _)
addVariableIntroductionsAt(p, clause, idx, op, ctx) ==
    IF p <= 0 THEN op
    ELSE CASE idx.operators[p].node.kind = "Atom" ->
                addVariableIntroductionsAt(p - 1, clause, idx,
                    addAtomScan(op, idx.operators[p].place[1], clause, p - 1, ctx), ctx)
           [] idx.operators[p].node.kind = "RecordInit" ->
                addVariableIntroductionsAt(p - 1, clause, idx,
                    addRecordUnpack(op, idx.operators[p], p - 1, idx), ctx)
           [] idx.operators[p].node.kind = "BranchInit" ->
                addVariableIntroductionsAt(
                    IF isADTBranchSimple(idx.operators[p].node) THEN p - 1 ELSE p - 2,
                    clause, idx, addAdtUnpack(op, idx.operators[p], p - 1, idx), ctx)

introduceVariables(clause, idx, op, ctx) ==
    addVariableIntroductionsAt(Len(idx.operators), clause, idx, op, ctx)


\* the aggregated atom read from the @delta_ relation in recursive mode
getAggregatedAtomName_Delta(clause, aggAtom, ctx) ==
    IF isRecursive(ctx) THEN getDeltaRelationName(aggAtom.name)
    ELSE getConcreteRelationName(aggAtom.name)

\* ClauseTranslator::getClauseAtomName for the atom of an aggregator: the
\* atom is no literal of the body of the clause, so it is the head, the
\* dominated atom, the dominating atom and sccAtoms.at(version) of no
\* clause; it is looked up as a literal of its own behind the body
getAggregatedAtomName(clause, aggAtom, ctx) ==
    getClauseAtomName([clause EXCEPT !.body = Append(@, aggAtom)],
                      Len(clause.body) + 1, ctx)

\* TranslatorContext::getOverloadedAggregatorOperator
getOverloadedAggregatorOperator(agg) ==
    IF agg.target = NoTarget THEN "COUNT" ELSE "SUM"

\* addAggEqCondition of instantiateAggregator
addAggEqCondition(aggr, value, pos, curLevel) ==
    IF value = UndefValue THEN aggr
    ELSE addConjunctiveTerm(aggr, Constraint("EQ", TupleElement(curLevel, pos), value))

\* the constraints of the literals of the body of an aggregator
RECURSIVE aggregatorConstraints(_, _, _, _)
aggregatorConstraints(j, agg, idx, aggCond) ==
    IF j > Len(agg.node.body) THEN aggCond
    ELSE aggregatorConstraints(j + 1, agg, idx,
            IF translateIndexedConstraint(idx, agg.node.body[j], Append(agg.place, j))
                 = NoCondition
            THEN aggCond
            ELSE addConjunctiveTerm(aggCond,
                    translateIndexedConstraint(idx, agg.node.body[j],
                                               Append(agg.place, j))))

\* the references of a variable other than the argument itself
otherReferences(idx, name, curLevel, col) ==
    {loc \in referencesOf(idx, name) : curLevel # loc.identifier \/ col # loc.element}

\* the arguments of the atom of an aggregator as conditions
RECURSIVE aggregatorArguments(_, _, _, _, _, _)
aggregatorArguments(i, args, place, curLevel, idx, aggCond) ==
    IF i > Len(args) THEN aggCond
    ELSE aggregatorArguments(i + 1, args, place, curLevel, idx,
            IF args[i].kind = "Variable"
            THEN IF otherReferences(idx, args[i].name, curLevel, i - 1) = {}
                 THEN aggCond
                 ELSE addAggEqCondition(aggCond,
                        makeRamTupleElement(FirstReference(
                            otherReferences(idx, args[i].name, curLevel, i - 1))),
                        i - 1, curLevel)
            ELSE addAggEqCondition(aggCond,
                    translateIndexedValue(idx, args[i], Append(place, i)),
                    i - 1, curLevel))

\* the condition of an aggregate: True when there is none
aggregateCondition(agg, curLevel, idx) ==
    LET cond == aggregatorArguments(1, agg.node.body[aggAtomOf(agg.node)].args,
                    Append(agg.place, aggAtomOf(agg.node)), curLevel, idx,
                    aggregatorConstraints(1, agg, idx, NoCondition))
    IN IF cond = NoCondition THEN True ELSE cond

\* ClauseTranslator::instantiateAggregator
instantiateAggregator(op, clause, agg, curLevel, idx, ctx) ==
    Aggregate(op, getOverloadedAggregatorOperator(agg.node),
        getAggregatedAtomName(clause, agg.node.body[aggAtomOf(agg.node)], ctx),
        IF agg.node.target = NoTarget THEN UndefValue
        ELSE translateIndexedValue(idx, agg.node.target, Append(agg.place, 0)),
        aggregateCondition(agg, curLevel, idx),
        curLevel)

\* ClauseTranslator::instantiateMultiResultFunctor
instantiateMultiResultFunctor(op, inf, curLevel, idx) ==
    NestedIntrinsicOperator(
        CASE inf.node.fn = "range" -> "RANGE"
          [] inf.node.fn = "urange" -> "URANGE"
          [] inf.node.fn = "frange" -> "FRANGE",
        [j \in DOMAIN inf.node.args |->
            translateIndexedValue(idx, inf.node.args[j], Append(inf.place, j))],
        op, curLevel)

\* addGeneratorLevels with the generators taken in the order of the index
RECURSIVE addGeneratorLevels_Forward(_, _, _, _, _, _)
addGeneratorLevels_Forward(g, curLevel, op, clause, idx, ctx) ==
    IF g = 0 THEN op
    ELSE addGeneratorLevels_Forward(g - 1, curLevel - 1,
            IF IsAggregator(idx.generators[Len(idx.generators) + 1 - g].node)
            THEN instantiateAggregator(op, clause,
                    idx.generators[Len(idx.generators) + 1 - g], curLevel, idx, ctx)
            ELSE instantiateMultiResultFunctor(op,
                    idx.generators[Len(idx.generators) + 1 - g], curLevel, idx),
            clause, idx, ctx)

\* ClauseTranslator::addGeneratorLevels: the generators from the last one to
\* the first one, generator g at level curLevel
RECURSIVE addGeneratorLevelsFrom(_, _, _, _, _, _)
addGeneratorLevelsFrom(g, curLevel, op, clause, idx, ctx) ==
    IF g = 0 THEN op
    ELSE addGeneratorLevelsFrom(g - 1, curLevel - 1,
            IF IsAggregator(idx.generators[g].node)
            THEN instantiateAggregator(op, clause, idx.generators[g], curLevel, idx, ctx)
            ELSE instantiateMultiResultFunctor(op, idx.generators[g], curLevel, idx),
            clause, idx, ctx)

addGeneratorLevels(op, clause, idx, ctx) ==
    addGeneratorLevelsFrom(Len(idx.generators),
        Len(idx.operators) + Len(idx.generators) - 1, op, clause, idx, ctx)


(***************************************************************************)
(* The levels on their own: a rule with a nested argument and generators   *)
(* is drawn and indexed, and the operations of its levels are built.       *)
(***************************************************************************)
\* the arguments drawn: variables, a constant, a constructor of an enum, and
\* records and constructors with one and with two fields around them
IndexLeaves ==
    {VarY, VarZ, UnnamedVariable, NumericConstant(1), BranchInit("Red", <<>>)}

IndexNested(t) ==
    {RecordInit(<<t, VarZ>>),
     BranchInit("Circle", <<t>>),
     BranchInit("Rect", <<VarZ, t>>)}

RECURSIVE IndexTerms(_)
IndexTerms(d) ==
    IF d = 0 THEN IndexLeaves
    ELSE IndexTerms(d - 1) \cup UNION {IndexNested(t) : t \in IndexTerms(d - 1)}

\* the generators drawn, as literals of the body: a count, a sum with a
\* constraint in its body, a range, and a range written before a count
VarU == Variable("u")
VarV == Variable("v")

CountEdges ==
    BinaryConstraint("=", VarW,
        Aggregator(NoTarget, <<Atom("edge", <<VarX, UnnamedVariable>>)>>))
SumEdges ==
    BinaryConstraint("=", VarW,
        Aggregator(VarV, <<BinaryConstraint("<", NumericConstant(1), VarV),
                           Atom("edge", <<VarX, VarV>>)>>))
RangeToX ==
    BinaryConstraint("=", VarU,
        IntrinsicFunctor("range", <<NumericConstant(1), VarX>>))

GeneratorLiterals ==
    {<<>>, <<CountEdges>>, <<SumEdges>>, <<RangeToX>>,
     <<RangeToX, CountEdges>>, <<SumEdges, RangeToX>>}

\* the rules drawn: the nested argument in the first atom, or in the atom
\* of the SCC and once more behind it
IndexClauses(t, gens) ==
    {Rule(Atom("path", <<VarX, VarY>>),
          <<Atom("edge", <<VarX, t>>), Atom("path", <<VarY, VarZ>>)>> \o gens),
     Rule(Atom("path", <<VarX, VarY>>),
          <<Atom("path", <<t, VarX>>)>> \o gens \o <<Atom("edge", <<VarY, t>>)>>)}

\* the positions of the two atoms of a drawn rule, in both orders
IndexPlans(clause) ==
    {NoPlan, (0 :> <<2, 1>>)}

IndexInputs ==
    UNION {
        {ClauseInput([c EXCEPT !.plan = pl], scc, 0, "DEFAULT",
                     [autoSchedule |-> FALSE, stats |-> NoStats], FALSE) :
            pl \in IndexPlans(c), scc \in {<<>>, <<"path">>}} :
        c \in UNION {IndexClauses(t, gens) :
                        t \in IndexTerms(MaxDepth), gens \in GeneratorLiterals}}

\* the context of the drawn clause
IndexCtx == InputCtx(input, SccAtomsOf(input.clause, input.scc), input.version)

\* a step of createRamRuleQuery on the indexed clause: the step, what it
\* returns and the index of the translator
Built(op, result, index) == [op |-> op, result |-> result, index |-> index]

\* the operation handed to addGeneratorLevels: the insertion of the head
HeadInsertion(idx) ==
    Insert(getClauseAtomName(input.clause, 0, IndexCtx),
           [j \in DOMAIN input.clause.head.args |->
               translateIndexedValue(idx, input.clause.head.args[j], <<0, j>>)])

InitIndex ==
    /\ input \in IndexInputs
    /\ output = <<>>
    /\ pc = Position("input", 0)
    /\ program = ClauseProgram(input)
    /\ config = InputConfig(input)
    /\ facts = {}
    /\ ramRelations = <<>>
    /\ ramSubroutines = <<>>
    /\ ramMain = NoStatement
    /\ failed = ""
    /\ db = <<>>
    /\ stores = {}
    /\ stack = <<>>
    /\ finished = {}
    /\ iteration = <<>>
    /\ lastExit = NoCondition
    /\ isProvenance = NotInitialized

\* createRamRuleQuery, first step: ClauseTranslator::indexClause on a fresh
\* translator
IndexClause ==
    /\ pc = Position("input", 0)
    /\ output' = TheOne({Built("indexClause", idx, idx) :
                            idx \in {indexedClause(input.clause, IndexCtx)}})
    /\ pc' = Position("output", 1)
    /\ UNCHANGED <<clauseFrame, failed, program>>

\* createRamRuleQuery, the step ClauseTranslator::addGeneratorLevels on the
\* operation built so far
AddGeneratorLevels ==
    /\ pc = Position("output", 1)
    /\ output' = Built("addGeneratorLevels",
                    addGeneratorLevels(HeadInsertion(output.index), input.clause,
                                       output.index, IndexCtx),
                    output.index)
    /\ pc' = Position("output", 2)
    /\ UNCHANGED <<clauseFrame, failed, program>>

\* createRamRuleQuery, the step ClauseTranslator::addVariableIntroductions
\* around the operation of the generator levels
AddVariableIntroductions ==
    /\ pc = Position("output", 2)
    /\ output' = Built("addVariableIntroductions",
                    introduceVariables(input.clause, output.index, output.result,
                                       IndexCtx),
                    output.index)
    /\ pc' = Position("output", 3)
    /\ UNCHANGED <<clauseFrame, failed, program>>

NextIndex ==
    \/ IndexClause
    \/ AddGeneratorLevels
    \/ AddVariableIntroductions

SpecIndex == InitIndex /\ [][NextIndex]_vars

(***************************************************************************)
(* The relation an aggregate reads from.                                   *)
(***************************************************************************)
\* the operation built on the levels of the drawn clause
LevelsBuilt == Returns("addGeneratorLevels") \/ Returns("addVariableIntroductions")

AggregatesOf(op) == {o \in Range(OperationChain(op)) : o.kind = "Aggregate"}

\* the level of generator k of the index
GeneratorLevel(idx, k) == Len(idx.operators) + k - 1

\* the name of the relation of the atom of aggregator k
AggregatedRelation(idx, k) ==
    idx.generators[k].node.body[aggAtomOf(idx.generators[k].node)].name

\* every aggregator of the clause has its Aggregate, which reads from the
\* relation Source(name) of its atom
AggregatesReadFrom(idx, aggregates, Source(_)) ==
    \A k \in DOMAIN idx.generators :
        IsAggregator(idx.generators[k].node) =>
            \E o \in aggregates :
                /\ o.level = GeneratorLevel(idx, k)
                /\ o.rel = Source(AggregatedRelation(idx, k))

DeltaInRecursiveMode(name) ==
    IF isRecursive(IndexCtx) THEN getDeltaRelationName(name)
    ELSE getConcreteRelationName(name)

\* C24 as stated: the Aggregate of every aggregator reads from the @delta_
\* relation of the aggregated atom in recursive mode and from the concrete
\* relation otherwise
C24_AggregateReadsDelta ==
    LevelsBuilt =>
        AggregatesReadFrom(output.index, AggregatesOf(output.result), DeltaInRecursiveMode)

\* C24: the Aggregate of every aggregator reads from the concrete relation
\* of the aggregated atom, in recursive mode as well: the atom of an
\* aggregator is no literal of the body, so it is never the atom of the SCC
\* the version reads the @delta_ relation of
C24_AggregateReadsConcrete ==
    LevelsBuilt =>
        AggregatesReadFrom(output.index, AggregatesOf(output.result),
                           getConcreteRelationName)

\* a clause with an aggregator translated in recursive mode
C24_Witness ==
    /\ Returns("addGeneratorLevels")
    /\ isRecursive(IndexCtx)
    /\ \E o \in AggregatesOf(output.result) : o.rel = "edge"

(***************************************************************************)
(* The levels of the index and the levels of the operations.               *)
(***************************************************************************)
\* the nodes that are given levels below an atom, in walk order: the atom,
\* the nested records and the constructors that are not of an enum, a
\* constructor with two fields or more twice
IsLevelNode(pn) ==
    \/ pn.node.kind \in {"Atom", "RecordInit"}
    \/ pn.node.kind = "BranchInit" /\ ~contextIsADTEnum(pn.node)

TakesTwoLevels(node) == node.kind = "BranchInit" /\ Len(node.args) >= 2

WithSecondLevels(nodes) ==
    FlattenSeqs([i \in DOMAIN nodes |->
        IF TakesTwoLevels(nodes[i].node) THEN <<nodes[i], nodes[i]>> ELSE <<nodes[i]>>])

StructuralLevels(clause, ordering) ==
    FlattenSeqs([k \in DOMAIN ordering |->
        WithSecondLevels(SelectSeq(NodesOf(AtomAt(clause, ordering[k]), <<ordering[k]>>),
                                   IsLevelNode))])

\* the generators of a clause: the aggregators, then the functors with
\* several results
GeneratorNodes(clause) == AggregatorsOf(clause) \o MultiResultFunctorsOf(clause)

\* the level on which the arguments of the node of a place are bound: the
\* last level of the node
ArgumentLevel(idx, place) ==
    (CHOOSE p \in DOMAIN idx.operators :
        /\ idx.operators[p].place = place
        /\ \A q \in DOMAIN idx.operators : idx.operators[q].place = place => q <= p) - 1

\* the arguments bound on a level, with their columns from 1: none on the
\* first level of a constructor with two levels, a dummy argument in front
\* for a constructor with one level
BoundArguments(idx, p) ==
    IF p < Len(idx.operators) /\ idx.operators[p + 1].place = idx.operators[p].place
    THEN <<>>
    ELSE IF idx.operators[p].node.kind = "BranchInit"
              /\ ~TakesTwoLevels(idx.operators[p].node)
    THEN <<UnnamedVariable>> \o idx.operators[p].node.args
    ELSE idx.operators[p].node.args

\* the variables of a level are recorded on that level, at their columns,
\* and the nested nodes of a level have their definition point there
LevelRecorded(idx, p) ==
    \A j \in DOMAIN BoundArguments(idx, p) :
        /\ BoundArguments(idx, p)[j].kind = "Variable" =>
              Location(p - 1, j - 1) \in referencesOf(idx, BoundArguments(idx, p)[j].name)
        /\ IsLevelNode(Placed(BoundArguments(idx, p)[j], <<>>)) =>
              \E q \in DOMAIN idx.operators :
                 /\ q > p
                 /\ idx.operators[q].node = BoundArguments(idx, p)[j]
                 /\ getDefinitionPoint(idx, idx.operators[q].place) = Location(p - 1, j - 1)

\* every reference of a variable is a variable argument of its level, or
\* the result or the atom of a generator
ReferenceBound(idx, r) ==
    IF r.loc.identifier < Len(idx.operators)
    THEN /\ r.loc.element + 1 \in DOMAIN BoundArguments(idx, r.loc.identifier + 1)
         /\ BoundArguments(idx, r.loc.identifier + 1)[r.loc.element + 1] = Variable(r.name)
    ELSE r.loc.identifier - Len(idx.operators) + 1 \in DOMAIN idx.generators

\* the index of a clause: structural levels 0..k-1 in walk order, then the
\* generator levels k..k+g-1
IndexLevels(idx, clause, ctx) ==
    /\ idx.operators = StructuralLevels(clause, getAtomOrdering(clause, ctx))
    /\ idx.generators = GeneratorNodes(clause)
    /\ \A p \in DOMAIN idx.operators : LevelRecorded(idx, p)
    /\ \A g \in DOMAIN idx.generators :
          getGeneratorLoc(idx, idx.generators[g].place)
            = Location(Len(idx.operators) + g - 1, 0)
    /\ \A r \in idx.refs : ReferenceBound(idx, r)

\* the operations of an operation that introduce a level, outermost first
IntroducesLevel(o) ==
    o.kind \in {"Scan", "UnpackRecord", "Aggregate", "NestedIntrinsicOperator"}
LevelOperations(op) == SelectSeq(OperationChain(op), IntroducesLevel)

\* the operation of a structural level is the one of its node
StructuralOperation(idx, o) ==
    LET p == o.level + 1
        node == idx.operators[p].node
        place == idx.operators[p].place
    IN  CASE node.kind = "Atom" -> o.kind = "Scan"
          [] node.kind = "RecordInit" ->
                /\ o.kind = "UnpackRecord"
                /\ o.arity = Len(node.args)
                /\ o.expr = makeRamTupleElement(getDefinitionPoint(idx, place))
          [] node.kind = "BranchInit" /\ p > 1 /\ idx.operators[p - 1].place = place ->
                \* the second level: the record of the arguments
                /\ o.kind = "UnpackRecord"
                /\ o.arity = Len(node.args)
                /\ o.expr = TupleElement(o.level - 1, 1)
          [] OTHER ->
                \* the record [tag, argument] or [tag, arguments]
                /\ o.kind = "UnpackRecord"
                /\ o.arity = 2
                /\ o.expr = makeRamTupleElement(getDefinitionPoint(idx, place))

\* the operation of a generator level is the one of its generator
GeneratorOperation(idx, o) ==
    LET g == o.level - Len(idx.operators) + 1
    IN  /\ g \in DOMAIN idx.generators
        /\ IF IsAggregator(idx.generators[g].node) THEN o.kind = "Aggregate"
           ELSE o.kind = "NestedIntrinsicOperator"

\* the levels are introduced from the outside in, each by the operation of
\* its node
EmittedInOrder(idx, ops) ==
    /\ \A i \in DOMAIN ops : i > 1 => ops[i - 1].level < ops[i].level
    /\ \A i \in DOMAIN ops :
          IF ops[i].level < Len(idx.operators)
          THEN StructuralOperation(idx, ops[i])
          ELSE GeneratorOperation(idx, ops[i])

LevelsOf(ops) == {ops[i].level : i \in DOMAIN ops}

\* the levels that have to be introduced: the ones variables are recorded
\* on, the ones of the records and constructors, the ones of the generators
StructuralLevelsDue(idx) ==
    {r.loc.identifier : r \in {q \in idx.refs : q.loc.identifier < Len(idx.operators)}}
    \cup {p - 1 : p \in {q \in DOMAIN idx.operators : idx.operators[q].node.kind # "Atom"}}
GeneratorLevelsDue(idx) ==
    {Len(idx.operators) + g - 1 : g \in DOMAIN idx.generators}

\* C25: indexClause gives every atom, nested record, constructor that is
\* not of an enum and generator a level of its own: the structural levels
\* 0..k-1 in walk order (a constructor with two fields or more takes two
\* consecutive levels, a simple one a single level with a dummy column for
\* the tag in front), then the generator levels k..k+g-1; every Scan,
\* UnpackRecord, Aggregate and NestedIntrinsicOperator is emitted at the
\* level the ValueIndex records for the variables the node binds
C25_Levels ==
    /\ Returns("indexClause") => IndexLevels(output.result, input.clause, IndexCtx)
    /\ Returns("addGeneratorLevels") =>
          /\ EmittedInOrder(output.index, LevelOperations(output.result))
          /\ LevelsOf(LevelOperations(output.result)) = GeneratorLevelsDue(output.index)
    /\ Returns("addVariableIntroductions") =>
          /\ EmittedInOrder(output.index, LevelOperations(output.result))
          /\ (StructuralLevelsDue(output.index) \cup GeneratorLevelsDue(output.index))
                \subseteq LevelsOf(LevelOperations(output.result))

\* a clause with a constructor of two levels around a nested record and two
\* generators, its operations built
C25_Witness ==
    /\ Returns("addVariableIntroductions")
    /\ Len(output.index.generators) = 2
    /\ \E p \in DOMAIN output.index.operators :
          /\ TakesTwoLevels(output.index.operators[p].node)
          /\ \E j \in DOMAIN output.index.operators[p].node.args :
                output.index.operators[p].node.args[j].kind = "RecordInit"
    /\ \E o \in Range(LevelOperations(output.result)) : o.kind = "NestedIntrinsicOperator"




(***************************************************************************)
(* interpreter/Node.h: constructNodeType                                   *)
(***************************************************************************)

\* the bound on the calls of constructNodeType in one process
MaxCalls == 3

\* tokens of FOR_EACH_INTERPRETER_TOKEN that are expanded per structure and
\* arity
ExpandedTokens == {"Scan", "Insert"}
\* RelationRepresentation
Representations == {"DEFAULT", "BTREE", "BTREE_DELETE", "EQREL", "PROVENANCE"}
NodeArities == {1, 2}
Structures == {"Btree", "BtreeDelete", "Eqrel", "Provenance"}

\* "I_" + tokBase + "_" + structure + "_" + std::to_string(arity): the parts
\* hold no underscore, so the name is kept as its parts
NodeTypeName(tokBase, structure, arity) == <<"I", tokBase, structure, arity>>

\* the map of constructNodeType: name -> NodeType, an entry for every
\* expansion of a token
NodeTypeMap ==
    {NodeTypeName(tok, s, a) : tok \in ExpandedTokens, s \in Structures,
                               a \in NodeArities}

\* std::unordered_map::at
MapAt(map, key) == IF key \in map THEN key ELSE "out_of_range"

\* Global::config() of a process that builds interpreter nodes
NodeConfigs ==
    {[profile |-> FALSE, autoSchedule |-> FALSE, stats |-> NoStats,
      provenance |-> b] : b \in BOOLEAN}

\* the initializer of the static runs on every call
initIsProvenance_PerCall(static, cfg) == [guard |-> TRUE, value |-> cfg.provenance]

\* static bool isProvenance = Global::config().has("provenance"): the
\* initializer runs when control first passes the declaration
initIsProvenance(static, cfg) ==
    IF static.guard THEN static ELSE [guard |-> TRUE, value |-> cfg.provenance]

\* the body of constructNodeType below the statics
constructNodeType(tokBase, rel, isProv) ==
    IF rel.representation = "EQREL"
    THEN MapAt(NodeTypeMap, NodeTypeName(tokBase, "Eqrel", rel.arity))
    ELSE IF rel.representation = "BTREE_DELETE"
    THEN MapAt(NodeTypeMap, NodeTypeName(tokBase, "BtreeDelete", rel.arity))
    ELSE IF isProv
    THEN MapAt(NodeTypeMap, NodeTypeName(tokBase, "Provenance", rel.arity))
    ELSE MapAt(NodeTypeMap, NodeTypeName(tokBase, "Btree", rel.arity))

\* a call of constructNodeType as the process made it
NodeCall(tokBase, rel, cfg) == [tokBase |-> tokBase, rel |-> rel, config |-> cfg]
NodeRelations == {[representation |-> r, arity |-> a] : r \in Representations,
                                                        a \in NodeArities}

InitNode ==
    /\ input = <<>>
    /\ output = <<>>
    /\ pc = Position("input", 0)
    /\ config \in NodeConfigs
    /\ program = LinearPath(0)
    /\ facts = {}
    /\ ramRelations = <<>>
    /\ ramSubroutines = <<>>
    /\ ramMain = NoStatement
    /\ failed = ""
    /\ db = <<>>
    /\ stores = {}
    /\ stack = <<>>
    /\ finished = {}
    /\ iteration = <<>>
    /\ lastExit = NoCondition
    /\ isProvenance = NotInitialized

nodeFrame == <<program, facts, ramRelations, ramSubroutines, ramMain, failed,
               db, stores, stack, finished, iteration, lastExit>>

\* a call of constructNodeType: input records the first call and the
\* latest one, pc.i counts the calls
ConstructNodeType ==
    /\ pc.i < MaxCalls
    /\ \E tokBase \in ExpandedTokens, rel \in NodeRelations :
          /\ isProvenance' = initIsProvenance(isProvenance, config)
          /\ output' = Returned("constructNodeType",
                          constructNodeType(tokBase, rel, isProvenance'.value))
          /\ input' = IF input = <<>>
                       THEN <<NodeCall(tokBase, rel, config)>>
                       ELSE <<input[1], NodeCall(tokBase, rel, config)>>
    /\ pc' = Position("output", pc.i + 1)
    /\ UNCHANGED <<config, nodeFrame>>

\* the process sets or unsets "provenance" in Global::config()
SetProvenance ==
    /\ pc.i < MaxCalls
    /\ config' = [config EXCEPT !.provenance = ~@]
    /\ UNCHANGED <<input, output, pc, isProvenance, nodeFrame>>

NextNode ==
    \/ ConstructNodeType
    \/ SetProvenance

SpecNode == InitNode /\ [][NextNode]_vars

\* the node type the relation and the flag select
SelectedNodeType(tokBase, representation, arity, flag) ==
    CASE representation = "EQREL" -> NodeTypeName(tokBase, "Eqrel", arity)
      [] representation = "BTREE_DELETE" -> NodeTypeName(tokBase, "BtreeDelete", arity)
      [] representation \notin {"EQREL", "BTREE_DELETE"} /\ flag ->
            NodeTypeName(tokBase, "Provenance", arity)
      [] representation \notin {"EQREL", "BTREE_DELETE"} /\ ~flag ->
            NodeTypeName(tokBase, "Btree", arity)

LastCall == input[Len(input)]

\* C26: constructNodeType returns I_tok_Eqrel_a for an equivalence relation,
\* I_tok_BtreeDelete_a for a delete-capable relation, and otherwise
\* I_tok_Provenance_a or I_tok_Btree_a by the provenance flag as it was at
\* the first call, whatever the configuration holds at the later call
C26_NodeType ==
    Returns("constructNodeType") =>
        output.result = SelectedNodeType(LastCall.tokBase,
                                         LastCall.rel.representation,
                                         LastCall.rel.arity,
                                         input[1].config.provenance)

\* the flag set at the first call and unset at the last call, which is on a
\* B-tree relation
C26_Witness ==
    /\ Returns("constructNodeType")
    /\ pc.i = MaxCalls
    /\ input[1].config.provenance
    /\ ~LastCall.config.provenance
    /\ LastCall.rel.representation = "DEFAULT"


(***************************************************************************)
(* Invariants of the loop of a recursive stratum.                          *)
(***************************************************************************)
\* the relations of the component whose loop is running
LoopRelations == Range(StratumNode(RunningStratum).relations)
\* an iteration of the loop has started and none of its statements has run
AtIterationStart == InLoop /\ iteration = <<>>
\* an Exit of the loop is the next statement
AtExit == InLoop /\ AtStatement /\ Current.kind = "Exit"

\* C27: at the start of every iteration of the loop of a stratum, @new_R is
\* empty and @delta_R is a subset of R for every relation R of the
\* component; when an Exit condition is evaluated, no tuple of a
\* non-nullary @new_R is in R
C27_LoopInvariants ==
    /\ AtIterationStart =>
          \A R \in LoopRelations :
              /\ db[getNewRelationName(R)] = {}
              /\ db[getDeltaRelationName(R)] \subseteq db[R]
    /\ AtExit =>
          \A R \in LoopRelations :
              program.relations[R].arity > 0 =>
                  db[getNewRelationName(R)] \cap db[R] = {}

\* an Exit is about to be evaluated in an iteration after the first: the
\* update has left in @delta_R the tuples it merged, fewer than R, and the
\* rule bodies have run on them
C27_Witness ==
    /\ AtExit
    /\ \E R \in LoopRelations :
          /\ program.relations[R].arity > 0
          /\ db[getDeltaRelationName(R)] # {}
          /\ db[getDeltaRelationName(R)] # db[R]
          /\ db[getDeltaRelationName(R)] \subseteq db[R]


(***************************************************************************)
(* Termination of the loop of a recursive stratum.  The interpreter runs   *)
(* the statements of the main program one after the other and every child  *)
(* of a Parallel runs to its end, so a step that is possible is taken.     *)
(***************************************************************************)
\* a step of the run of the main statement
RunNext ==
    \/ EnterSequence \/ CallSubroutine \/ EndSequence
    \/ EnterLoop \/ LoopIterate \/ ExitLoop
    \/ RunStatement \/ EnterParallel \/ ParallelStep \/ EndParallel

SpecFair == Init /\ [][Next]_vars /\ WF_vars(RunNext)

\* the body of the loop has ended without an Exit firing
AtIterationEnd == Running /\ Top.k = "loop"
\* the first event of the update of the iteration
FirstUpdate == CHOOSE e \in EventsOfPhase(3) : \A f \in EventsOfPhase(3) : e <= f
\* a concrete relation of the component holds more tuples than before the
\* update of the iteration
Grown ==
    \E R \in LoopRelations :
        /\ iteration[FirstUpdate].before[R] \subseteq db[R]
        /\ iteration[FirstUpdate].before[R] # db[R]
IsEmptinessExit(cond) ==
    \A k \in DOMAIN Conjuncts(cond) : Conjuncts(cond)[k].kind = "EmptinessCheck"
\* the loop is left through the emptiness Exit, every @new_R empty
LeftOnEmptiness ==
    /\ IsEmptinessExit(lastExit')
    /\ \A R \in LoopRelations : db'[getNewRelationName(R)] = {}
\* the loop is left through the Exit of a limitsize relation
LeftOnLimit ==
    \E R \in LoopRelations :
        /\ IsLimited(R)
        /\ lastExit' = LimitExit(R).cond
        /\ Cardinality(db'[R]) >= program.relations[R].limitsize

\* C28 as stated: every iteration of the loop that does not exit adds a
\* tuple to a concrete relation of the component, the loop terminates, and
\* it is left through the emptiness Exit with every @new_R empty
C28_EmptinessExitFires ==
    /\ [](AtIterationEnd => Grown)
    /\ (InLoop ~> ~InLoop)
    /\ [][LeavesLoop => LeftOnEmptiness]_vars

\* C28: every iteration of the loop that does not exit adds a tuple to a
\* concrete relation of the component and the loop terminates; it is left
\* through the emptiness Exit with every @new_R empty, or earlier through
\* the Exit of a limitsize relation that has reached its limit
C28_Termination ==
    /\ [](AtIterationEnd => Grown)
    /\ (InLoop ~> ~InLoop)
    /\ [][LeavesLoop => (LeftOnEmptiness \/ LeftOnLimit)]_vars

\* the run has ended, the loop of a stratum with rule bodies was left
\* through the emptiness Exit after its iterations had derived tuples
C28_Witness ==
    /\ pc.phase = "done"
    /\ IsEmptinessExit(lastExit)
    /\ \E i \in DOMAIN program.sccOrdering :
          /\ StratumNode(i).recursive
          /\ RuleBodies(i) > 0
          /\ \E r \in Range(StratumNode(i).relations) : Cardinality(db[r]) > MaxFacts


(***************************************************************************)
(* The Parallel phase of an iteration of the loop.                         *)
(***************************************************************************)
\* the children of a Parallel are running
AtParallel == Running /\ Top.k = "par"
\* every child of the Parallel has run its statements
AtParallelEnd == AtParallel /\ \A i \in DOMAIN Top.threads : Top.threads[i] = <<>>
\* the Parallel statement of the loop that is running
LoopParallel == Strip(Strip(stack[InnermostLoop].body).stmts[1])
\* the statements of each child of the Parallel, in order
ParallelBodies == [i \in DOMAIN LoopParallel.stmts |-> Leaves(LoopParallel.stmts[i])]
HasRecursiveClause(name) ==
    \E c \in DOMAIN program.clauses :
        program.clauses[c].head.name = name /\ recursive(program, program.clauses[c])
\* the relations of the running component that have a rule body in the loop
RelationsWithRules == SelectSeq(StratumNode(RunningStratum).relations, HasRecursiveClause)
NewRelations == {getNewRelationName(R) : R \in LoopRelations}

\* the i-th child of the Parallel holds the rule bodies of the i-th relation
\* with a recursive clause, and each of them is a Query that inserts into
\* the @new_ relation of that relation
BodiesInsertIntoNew ==
    /\ Len(ParallelBodies) = Len(RelationsWithRules)
    /\ \A i \in DOMAIN ParallelBodies :
          \A k \in DOMAIN ParallelBodies[i] :
              /\ ParallelBodies[i][k].kind = "Query"
              /\ InsertionOf(ParallelBodies[i][k].operation).rel =
                     getNewRelationName(RelationsWithRules[i])

\* the database the Parallel started on: the one of the state with the
\* @new_ relations empty
ParallelStart == [r \in DOMAIN db |-> IF r \in NewRelations THEN {} ELSE db[r]]

RECURSIVE RunAll(_, _)
RunAll(stmts, st) ==
    IF stmts = <<>> THEN st
    ELSE RunAll(Tail(stmts), ExecStatement(Head(stmts), st))

\* the database after the children of the Parallel have run one after the
\* other
SequentialResult ==
    RunAll(FlattenSeqs(ParallelBodies), [db |-> ParallelStart, stores |-> stores]).db

\* C29: in the Parallel phase of an iteration the rule bodies of a relation
\* R insert into @new_R only, no step of the phase changes a concrete
\* relation, a @delta_ relation or the stores, and whatever the
\* interleaving of the children, the phase ends with the relations the
\* children leave when they run one after the other
C29_ParallelPhase ==
    /\ [](AtParallel => BodiesInsertIntoNew)
    /\ [][AtParallel =>
            /\ \A r \in DOMAIN db : r \notin NewRelations => db'[r] = db[r]
            /\ \A r \in NewRelations : db[r] \subseteq db'[r]
            /\ stores' = stores]_vars
    /\ [](AtParallelEnd => db = SequentialResult)

\* the Parallel of a component of two relations with a rule body each has
\* ended, tuples derived
C29_Witness ==
    /\ AtParallelEnd
    /\ Len(Top.threads) >= 2
    /\ \E r \in NewRelations : db[r] # {}


(***************************************************************************)
(* The limit-size Exit of the loop.                                        *)
(***************************************************************************)
\* an Exit on the size of a relation is the next statement of the loop
AtLimitExit == AtExit /\ Current.cond.kind = "Constraint"
\* the step runs a statement of the update of the iteration
UpdateStep ==
    /\ iteration' # iteration
    /\ iteration' # <<>>
    /\ Phase(iteration'[Len(iteration')]) = 3
\* the subroutine of a stratum is running
InStratum ==
    \E f \in DOMAIN stack, i \in DOMAIN program.sccOrdering :
        stack[f].k = "seq" /\ stack[f].call = stratumID(i - 1)
\* the loop of the running stratum was left through a limit-size Exit
AfterLimitExit ==
    /\ pc.phase = "run" /\ ~InLoop /\ InStratum
    /\ \E R \in LoopRelations : IsLimited(R) /\ lastExit = LimitExit(R).cond
Limit(R) == program.relations[R].limitsize
AllNewRelations ==
    {getNewRelationName(R) : R \in DOMAIN program.relations} \cap DOMAIN db

\* C30: a limit-size Exit is evaluated before the update of its iteration,
\* on the concrete relation R as the update of the previous iteration left
\* it, and fires when R holds the limit or more; R is then short of the
\* limit plus the size of the @new_R last merged, which @delta_R holds.
\* Once the loop is left through a limit-size Exit, no concrete relation of
\* the component changes any more and the tuples of the @new_ relations,
\* none of which is in its concrete relation, are cleared.
C30_LimitExit ==
    /\ [](AtLimitExit =>
            \E R \in LoopRelations :
                /\ IsLimited(R)
                /\ Current = LimitExit(R)
                /\ EventsOfPhase(3) = {}
                /\ \A Q \in LoopRelations : db[getNewRelationName(Q)] \cap db[Q] = {}
                /\ Cardinality(db[R]) >= Limit(R) =>
                      Cardinality(db[R]) <
                          Limit(R) + Cardinality(db[getDeltaRelationName(R)]))
    /\ [][(InLoop /\ ~UpdateStep) => \A R \in LoopRelations : db'[R] = db[R]]_vars
    /\ [][AtLimitExit =>
            (LeavesLoop <=> \E R \in LoopRelations :
                                /\ Current = LimitExit(R)
                                /\ Cardinality(db[R]) >= Limit(R))]_vars
    /\ [][AfterLimitExit =>
            \A R \in LoopRelations :
                /\ db'[R] = db[R]
                /\ db'[getNewRelationName(R)] \subseteq db[getNewRelationName(R)]]_vars
    /\ []((pc.phase = "done" /\ lastExit.kind = "Constraint") =>
            \A r \in AllNewRelations : db[r] = {})

\* the run has ended after a limit-size Exit of a relation without
\* non-recursive clause: the relation holds more tuples than its limit, all
\* of them merged by the update, and a relation of the component lacks
\* tuples its clauses derive, the ones cleared with the @new_ relation
C30_Witness ==
    /\ pc.phase = "done"
    /\ \E i \in DOMAIN program.sccOrdering :
          /\ StratumNode(i).recursive
          /\ \E R \in Range(StratumNode(i).relations) :
                /\ IsLimited(R)
                /\ lastExit = LimitExit(R).cond
                /\ NonRecursiveClauses(R) = {}
                /\ Cardinality(db[R]) > Limit(R)
          /\ \E Q \in Range(StratumNode(i).relations) :
                /\ ImmediateConsequences(db)[Q] # db[Q]
                /\ db[getNewRelationName(Q)] = {}

=============================================================================
